---- MODULE Spec2Model ----
(***************************************************************************)
(* The SNMP endpoint runtime of snmp-asio: SNMP (Agent / Manager) on top   *)
(* of AsioUDP, an asio UDP socket driven by one io_context thread.         *)
(*                                                                         *)
(* The program state is the SNMP object (_udp, _onMessage, _onError,       *)
(* _defaultPort), the AsioUDP objects it has created (a second             *)
(* initialize() makes a new one while the old one may be kept alive by its *)
(* pending receive), and the io_context's queue of completion handlers.    *)
(* The environment is the network: datagrams arriving at a bound socket,   *)
(* the reactor completing a pending receive, and the result of send_to.    *)
(***************************************************************************)
EXTENDS Integers, Sequences, FiniteSets, TLC

\* ---------------------------------------------------------------- bounds
\* Calls the user makes of the endpoint's operations (initialize, start,
\* stop, onMessage, onError, send), in any order and interleaved with the
\* network's events.
MaxUserOps == 3
\* AsioUDP objects the endpoint creates (calls of initialize()).
MaxInit == 2
\* Datagrams the network delivers to the program's sockets.
MaxDatagrams == 2
\* Receive completions that report an I/O error.
MaxErrors == 1
\* Size of rx_buffer_ and of the initial tx_buffer_ (1500 in the program,
\* scaled down; the datagrams of the model are 0..BufferSize bytes long).
BufferSize == 4

\* ------------------------------------------------------ program constants
\* Port::SNMP and Port::Trap.
PortSNMP == 161
PortTrap == 162

\* The ports initialize() is called with: 0 selects the role's default.
InitPorts == {0, 1161}

\* The parser's error, as the error handler would be given it.
Malformed == "malformed"

\* asio error codes the model distinguishes.
NoError == "success"
OperationAborted == "operation_aborted"
ReceiveErrors == {"connection_refused", OperationAborted}
OpenError == "no_descriptors"
BindError == "address_in_use"
SendError == "network_unreachable"

\* Remote peers: (IPv4 address as four octets, UDP port).
PeerA == [ip |-> <<10, 0, 0, 1>>, port |-> 40000]
PeerB == [ip |-> <<192, 0, 2, 1>>, port |-> 40001]
Peers == {PeerA, PeerB}

\* Local addresses of the host: the one initialize() is asked to bind, and
\* another one. AddrAny is asio::ip::udp::v4()'s unspecified address 0.0.0.0,
\* which a socket bound to it receives every local address's datagrams on.
LocalA == <<192, 0, 2, 10>>
LocalB == <<127, 0, 0, 1>>
AddrAny == <<0, 0, 0, 0>>
BindAddresses == {LocalA}

Min(a, b) == IF a < b THEN a ELSE b


Zeros(n) == [j \in 1..n |-> 0]

\* The first n elements of a sequence.
Prefix(s, n) == [j \in 1..Min(n, Len(s)) |-> s[j]]

\* --------------------------------------------------------------- IPAddress
\* A uint32_t address is held as its two 16-bit halves <<high, low>> (TLC's
\* integers are narrower than 32 bits unsigned).
\* IPAddress::IPAddress(uint32_t): bytes[0] = (a >> 24) & 0xFF, bytes[1] =
\* (a >> 16) & 0xFF, bytes[2] = (a >> 8) & 0xFF, bytes[3] = a & 0xFF.
IPAddressFromUint32(a) ==
    << (a[1] \div 256) % 256, a[1] % 256, (a[2] \div 256) % 256, a[2] % 256 >>

\* IPAddress::operator uint32_t: (b0 << 24) | (b1 << 16) | (b2 << 8) | b3,
\* the octets being disjoint bit fields of the 32-bit value.
IPAddressToUint32(b) ==
    << (b[1] * 256 + b[2]) % 65536, (b[3] * 256 + b[4]) % 65536 >>

\* ------------------------------------------------------------ wire format
\* A message is modelled by its PDU tag and its request id; on the wire it
\* is a top-level SEQUENCE (tag 0x30, short-form length) of these two bytes.
TagSequence == 48
TagGetRequest == 160
TagGetResponse == 162

\* Message::getSize(true): the number of bytes build() writes.
GetSize(m) == 4

\* Message::build: tag, length, content.
Build(m) == << TagSequence, 2, m.type, m.id >>

\* Message::parse: succeeds on a SEQUENCE whose declared length equals the
\* content that follows it within the datagram.
ParseOK(bytes) ==
    /\ Len(bytes) >= 2
    /\ bytes[1] = TagSequence
    /\ bytes[2] = Len(bytes) - 2

\* How many bytes Message::parse(buffer.data()) reads: it is handed the
\* address of the first byte and no length, reads the tag and the length
\* field, and then the content the length field declares.
ParseExtent(bytes) == IF Len(bytes) < 2 THEN 2 ELSE 2 + bytes[2]

\* The events of that parse: it reads past the end of the buffer when the
\* bytes it reads are more than the buffer holds.
ParseEv(bytes) ==
    IF ParseExtent(bytes) > Len(bytes) THEN << "parse", "read past end" >>
    ELSE << "parse" >>

\* The forms of datagram the network delivers, the k-th one carrying k as
\* its request id: a well-formed request, one whose length field declares
\* more content than the datagram holds, an empty datagram, and a request
\* followed by padding that makes the datagram one byte longer than the
\* receive buffer.
Forms == {"valid", "malformed", "empty", "oversized"}

\* The datagrams the network delivers: who sends which form to which local
\* address of the host.
Datagrams == { [from |-> PeerA, form |-> "valid", to |-> LocalA],
               [from |-> PeerB, form |-> "oversized", to |-> LocalB],
               [from |-> PeerA, form |-> "malformed", to |-> LocalA],
               [from |-> PeerB, form |-> "empty", to |-> LocalA] }

Payload(form, k) ==
    CASE form = "valid" -> << TagSequence, 2, TagGetRequest, k >>
      [] form = "malformed" -> << TagSequence, 5, TagGetRequest, k >>
      [] form = "oversized" ->
            << TagSequence, 2, TagGetRequest, k >> \o Zeros(BufferSize - 3)
      [] OTHER -> << >>

\* The request id a handler reads from the bytes it is handed (0: none).
RequestIdOf(bytes) == IF Len(bytes) >= 4 THEN bytes[4] ELSE 0

\* -------------------------------------------------------------- BER codec
\* The BER tags of the values the model encodes, and the error statuses.
TagInteger == 2
TagOctetString == 4
TagNull == 5
TagOID == 6
TagTimeTicks == 67
TagNoSuchObject == 128
TagEndOfMIBView == 130
TagGetNextRequest == 161
TagSetRequest == 163
TagGetBulkRequest == 165
ErrorNoSuchName == 2
ErrorBadValue == 3

\* BER values: leaves and constructed values (a Sequence or a PDU).
IntegerBER(i) == [tag |-> TagInteger, kind |-> "integer", v |-> i]
OctetStringBER(s) == [tag |-> TagOctetString, kind |-> "octets", v |-> s]
OIDBER(oid) == [tag |-> TagOID, kind |-> "oid", v |-> oid]
MarkerBER(tag) == [tag |-> tag, kind |-> "empty", v |-> << >>]
SequenceBER(tag, children) == [tag |-> tag, kind |-> "constructed", v |-> children]

\* The big-endian octets of n without leading zero octets.
RECURSIVE Octets(_)
Octets(n) == IF n = 0 THEN << >> ELSE Octets(n \div 256) \o << n % 256 >>

\* The length field for a payload of n bytes, wrongly always in long form.
EncodeLengthLongForm(n) ==
    LET o == IF n = 0 THEN << 0 >> ELSE Octets(n) IN << 128 + Len(o) >> \o o

\* The length field the encoder writes for a payload of n bytes: the short
\* form up to 127, else 0x80 + N and the N big-endian octets of n.
EncodeLength(n) ==
    IF n <= 127 THEN << n >> ELSE LET o == Octets(n) IN << 128 + Len(o) >> \o o

\* The size of the length field, wrongly two octets for every long form.
LengthSizeTwoOctets(n) == IF n <= 127 THEN 1 ELSE 2

\* The size of that length field, computed without encoding it.
LengthSize(n) ==
    IF n <= 127 THEN 1
    ELSE IF n <= 255 THEN 2
    ELSE IF n <= 65535 THEN 3
    ELSE IF n <= 16777215 THEN 4
    ELSE 5

\* The value a decoder reads from big-endian octets.
RECURSIVE Unsigned(_)
Unsigned(o) ==
    IF o = << >> THEN 0 ELSE Unsigned(SubSeq(o, 1, Len(o) - 1)) * 256 + o[Len(o)]

\* The number of content octets of the Integer i, wrongly by the rule of
\* the unsigned types without their leading 0x00.
IntegerSizeUnsigned(i) ==
    IF i >= -128 /\ i <= 255 THEN 1
    ELSE IF i >= -32768 /\ i <= 65535 THEN 2
    ELSE IF i >= -8388608 /\ i <= 16777215 THEN 3
    ELSE 4

\* The number of content octets of the Integer i: the fewest that hold i
\* in two's complement.
IntegerSize(i) ==
    IF i >= -128 /\ i <= 127 THEN 1
    ELSE IF i >= -32768 /\ i <= 32767 THEN 2
    ELSE IF i >= -8388608 /\ i <= 8388607 THEN 3
    ELSE 4

RECURSIVE Pow256(_)
Pow256(k) == IF k = 0 THEN 1 ELSE 256 * Pow256(k - 1)

\* The content octets of the Integer i: the low IntegerSize(i) octets of
\* its two's complement, most significant first.
EncodeInteger(i) ==
    LET n == IntegerSize(i)
    IN  [k \in 1..n |-> (i \div Pow256(n - k)) % 256]

\* The Integer a decoder reads from content octets: the first octet is
\* sign-extended, each further octet shifts the value left by eight bits.
RECURSIVE DecodeInteger(_)
DecodeInteger(o) ==
    IF Len(o) = 1 THEN (IF o[1] >= 128 THEN o[1] - 256 ELSE o[1])
    ELSE DecodeInteger(SubSeq(o, 1, Len(o) - 1)) * 256 + o[Len(o)]

\* One OID subidentifier in base 128, most significant septet first, the
\* continuation bit set on every octet but the last.
RECURSIVE Septets(_)
Septets(n) ==
    IF n < 128 THEN << >>
    ELSE Septets(n \div 128) \o << 128 + ((n \div 128) % 128) >>

EncodeSubId(n) == Septets(n) \o << n % 128 >>

SubIdSize(n) ==
    IF n < 128 THEN 1
    ELSE IF n < 16384 THEN 2
    ELSE IF n < 2097152 THEN 3
    ELSE IF n < 268435456 THEN 4
    ELSE 5

RECURSIVE EncodeSubIds(_)
EncodeSubIds(s) == IF s = << >> THEN << >> ELSE EncodeSubId(Head(s)) \o EncodeSubIds(Tail(s))

RECURSIVE SubIdsSize(_)
SubIdsSize(s) == IF s = << >> THEN 0 ELSE SubIdSize(Head(s)) + SubIdsSize(Tail(s))

\* The content octets of an OID: the first two subidentifiers packed into
\* one octet, then each further subidentifier.
EncodeOID(oid) == << 40 * oid[1] + oid[2] >> \o EncodeSubIds(SubSeq(oid, 3, Len(oid)))

OIDSize(oid) == 1 + SubIdsSize(SubSeq(oid, 3, Len(oid)))

\* encode(value): tag, length field, payload; a constructed value's payload
\* is its children in order.
RECURSIVE encode(_)
RECURSIVE encodeAll(_)
encodeAll(vs) == IF vs = << >> THEN << >> ELSE encode(Head(vs)) \o encodeAll(Tail(vs))

encode(value) ==
    LET payload == CASE value.kind = "integer" -> EncodeInteger(value.v)
                     [] value.kind = "octets" -> value.v
                     [] value.kind = "oid" -> EncodeOID(value.v)
                     [] value.kind = "constructed" -> encodeAll(value.v)
                     [] OTHER -> << >>
    IN  << value.tag >> \o EncodeLength(Len(payload)) \o payload

\* encoded_length(value): 1 (tag) + the size of the length field + the
\* length of the payload, computed without building any byte.
RECURSIVE encoded_length(_)
RECURSIVE encoded_lengths(_)
encoded_lengths(vs) ==
    IF vs = << >> THEN 0 ELSE encoded_length(Head(vs)) + encoded_lengths(Tail(vs))

encoded_length(value) ==
    LET n == CASE value.kind = "integer" -> IntegerSize(value.v)
               [] value.kind = "octets" -> Len(value.v)
               [] value.kind = "oid" -> OIDSize(value.v)
               [] value.kind = "constructed" -> encoded_lengths(value.v)
               [] OTHER -> 0
    IN  1 + LengthSize(n) + n

\* A Message as a BER value: the Sequence of version, community and PDU,
\* the PDU holding request id, error status, error index and the
\* Sequence of VarBinds (a name and a value each).
VarBindBER(vb) == SequenceBER(TagSequence, << OIDBER(vb.name), vb.value >>)

MessageBER(m) ==
    SequenceBER(TagSequence,
        << IntegerBER(m.version), OctetStringBER(m.community),
           SequenceBER(m.type,
               << IntegerBER(m.requestID), IntegerBER(m.errorStatus),
                  IntegerBER(m.errorIndex),
                  SequenceBER(TagSequence,
                      [k \in 1..Len(m.varbinds) |-> VarBindBER(m.varbinds[k])]) >>) >>)

\* Message::getSize() and Message::build().
getSize(m) == encoded_length(MessageBER(m))
build(m) == encode(MessageBER(m))

\* ------------------------------------------------- the codec on its own
\* Payload lengths the length field is encoded for: every length up to
\* MaxLength, and the lengths next to the larger powers of 256.
MaxLength == 300
Lengths == 0..MaxLength \cup {65535, 65536, 16777215, 16777216}

\* Integers the Integer encoding is applied to: those within MaxDelta of a
\* change of the octet count, and of the ends of the 32-bit range.
MaxDelta == 2
Integers32 ==
    {b + d : b \in {0, 128, -128, 32768, -32768, 8388608, -8388608},
             d \in -MaxDelta..MaxDelta}
    \cup {2147483647 - d : d \in 0..MaxDelta}
    \cup {(-2147483647 - 1) + d : d \in 0..MaxDelta}

\* Messages that are serialized: up to MaxCodecVarBinds varbinds, values
\* and communities on both sides of the short form's limit of 127 bytes.
MaxCodecVarBinds == 2
CodecMessages ==
    LET VarBinds ==
            {[name |-> o, value |-> v] :
                o \in {<< 1, 3, 6, 1, 2, 1, 1, 5, 0 >>,
                       << 1, 3, 6, 1, 4, 1, 12345, 2097152 >>},
                v \in {IntegerBER(-129), OctetStringBER(Zeros(128)),
                       MarkerBER(TagEndOfMIBView)}}
    IN  {[version |-> o.version, community |-> Zeros(c), type |-> TagGetResponse,
          requestID |-> o.requestID, errorStatus |-> o.errorStatus,
          errorIndex |-> Len(l), varbinds |-> l] :
            o \in {[version |-> 0, requestID |-> 1, errorStatus |-> 0],
                   [version |-> 1, requestID |-> 2147483647, errorStatus |-> 2]},
            c \in {6, 127},
            l \in UNION {[1..n -> VarBinds] : n \in 0..MaxCodecVarBinds}}

\* The codec before anything was encoded.
CodecIdle == [op |-> "none", arg |-> 0, size |-> 0, bytes |-> << >>, value |-> 0]

\* ---------------------------------------------------------- example agent
\* The OIDs of the MIB-II system group the example agent knows.
SYSNAME_OID == << 1, 3, 6, 1, 2, 1, 1, 5, 0 >>
SYSDESCR_OID == << 1, 3, 6, 1, 2, 1, 1, 1, 0 >>
SYSUPTIME_OID == << 1, 3, 6, 1, 2, 1, 1, 3, 0 >>
SYSCONTACT_OID == << 1, 3, 6, 1, 2, 1, 1, 4, 0 >>
SYSLOCATION_OID == << 1, 3, 6, 1, 2, 1, 1, 6, 0 >>

\* The agent holds OIDs as std::string, and compares them as strings: the
\* characters of an OID's dotted-decimal form, as character codes.
RECURSIVE Digits(_)
Digits(n) == IF n < 10 THEN << 48 + n >> ELSE Digits(n \div 10) \o << 48 + (n % 10) >>

RECURSIVE OIDString(_)
OIDString(oid) ==
    IF oid = << >> THEN << >>
    ELSE IF Len(oid) = 1 THEN Digits(oid[1])
    ELSE Digits(oid[1]) \o << 46 >> \o OIDString(Tail(oid))

\* std::string's operator< : lexicographic on the characters.
RECURSIVE StringLess(_, _)
StringLess(a, b) ==
    IF b = << >> THEN FALSE
    ELSE IF a = << >> THEN TRUE
    ELSE IF a[1] # b[1] THEN a[1] < b[1]
    ELSE StringLess(Tail(a), Tail(b))

Less(oid1, oid2) == StringLess(OIDString(oid1), OIDString(oid2))

\* A null std::unique_ptr<BER>.
NullBER == [tag |-> 0, kind |-> "nullptr", v |-> << >>]
TimeTicksBER(t) == [tag |-> TagTimeTicks, kind |-> "unsigned", v |-> t]

\* SimpleMIB::SimpleMIB(): mib_values, a std::map from OID to string.
SimpleMIB ==
    [oid \in {SYSNAME_OID, SYSDESCR_OID, SYSCONTACT_OID, SYSLOCATION_OID} |->
        CASE oid = SYSNAME_OID -> "SNMP-Asio Example Device"
          [] oid = SYSDESCR_OID -> "Example SNMP Agent using SNMP-ASIO library"
          [] oid = SYSCONTACT_OID -> "admin@example.com"
          [] OTHER -> "Server Room"]

\* SimpleMIB::getValue(oid); uptime is what getUptime() reads off the clock.
getValue(mib_values, oid, uptime) ==
    IF oid \in DOMAIN mib_values THEN OctetStringBER(mib_values[oid])
    ELSE IF oid = SYSUPTIME_OID THEN TimeTicksBER(uptime)
    ELSE NullBER

\* SimpleMIB::setValue(oid, value), wrongly storing a value under any OID.
setValueAnyOID(mib_values, oid, value) ==
    [mib_values |-> [x \in DOMAIN mib_values \cup {oid} |->
                        IF x = oid THEN value ELSE mib_values[x]],
     ret |-> oid \in {SYSNAME_OID, SYSCONTACT_OID, SYSLOCATION_OID}]

\* SimpleMIB::setValue(oid, value), wrongly writing every OID the map holds.
setValueAnyKey(mib_values, oid, value) ==
    IF oid \in DOMAIN mib_values
    THEN [mib_values |-> [x \in DOMAIN mib_values |->
                             IF x = oid THEN value ELSE mib_values[x]],
          ret |-> TRUE]
    ELSE [mib_values |-> mib_values, ret |-> FALSE]

\* SimpleMIB::setValue(oid, value): the map afterwards and the result.
setValue(mib_values, oid, value) ==
    IF oid \in {SYSNAME_OID, SYSCONTACT_OID, SYSLOCATION_OID}
    THEN [mib_values |-> [x \in DOMAIN mib_values \cup {oid} |->
                             IF x = oid THEN value ELSE mib_values[x]],
          ret |-> TRUE]
    ELSE [mib_values |-> mib_values, ret |-> FALSE]

\* SimpleMIB::getNextOID(oid): the first key of the map, in the map's
\* (string) order, that is greater than oid; << >> is the empty string.
getNextOID(mib_values, oid) ==
    LET greater == {x \in DOMAIN mib_values : Less(oid, x)}
    IN  IF greater # {}
        THEN CHOOSE x \in greater : \A y \in greater : y = x \/ Less(x, y)
        ELSE IF Less(oid, SYSUPTIME_OID) /\ Less(oid, SYSUPTIME_OID)
        THEN SYSUPTIME_OID
        ELSE << >>

\* Message(version, community, type) and its mutators.
NewMessage(version, community, type) ==
    [version |-> version, community |-> community, type |-> type,
     requestID |-> 0, errorStatus |-> 0, errorIndex |-> 0, varbinds |-> << >>]

setRequestID(m, id) == [m EXCEPT !.requestID = id]
setError(m, status, index) == [m EXCEPT !.errorStatus = status, !.errorIndex = index]
add(m, name, value) == [m EXCEPT !.varbinds = Append(@, [name |-> name, value |-> value])]

\* The loops of the three request handlers, from varbind i (0-based) on;
\* st holds the handler's locals: response, error, error_index.
HandlerLocals(response) == [response |-> response, error |-> FALSE, error_index |-> 0]

Failed(st, i, name, tag) ==
    [st EXCEPT !.response = add(@, name, MarkerBER(tag)), !.error = TRUE,
               !.error_index = (i + 1) % 256]

RECURSIVE GetLoop(_, _, _, _, _)
GetLoop(mib_values, varbindlist, i, st, uptime) ==
    IF i >= Len(varbindlist) THEN st
    ELSE LET name == varbindlist[i + 1].name
             value == getValue(mib_values, name, uptime)
         IN  GetLoop(mib_values, varbindlist, i + 1,
                     IF value.kind # "nullptr"
                     THEN [st EXCEPT !.response = add(@, name, value)]
                     ELSE Failed(st, i, name, TagNoSuchObject),
                     uptime)

\* SNMPAgentApp::handleGetRequest: the response afterwards.
handleGetRequest(mib_values, response, varbindlist, uptime) ==
    LET st == GetLoop(mib_values, varbindlist, 0, HandlerLocals(response), uptime)
    IN  IF st.error THEN setError(st.response, ErrorNoSuchName, st.error_index)
        ELSE st.response

RECURSIVE GetNextLoop(_, _, _, _, _)
GetNextLoop(mib_values, varbindlist, i, st, uptime) ==
    IF i >= Len(varbindlist) THEN st
    ELSE LET name == varbindlist[i + 1].name
             next_oid == getNextOID(mib_values, name)
             value == IF next_oid # << >> THEN getValue(mib_values, next_oid, uptime)
                      ELSE NullBER
         IN  GetNextLoop(mib_values, varbindlist, i + 1,
                         IF value.kind # "nullptr"
                         THEN [st EXCEPT !.response = add(@, next_oid, value)]
                         ELSE Failed(st, i, name, TagEndOfMIBView),
                         uptime)

\* SNMPAgentApp::handleGetNextRequest: the response afterwards.
handleGetNextRequest(mib_values, response, varbindlist, uptime) ==
    LET st == GetNextLoop(mib_values, varbindlist, 0, HandlerLocals(response), uptime)
    IN  IF st.error THEN setError(st.response, ErrorNoSuchName, st.error_index)
        ELSE st.response

\* st holds the MIB as well: setValue changes it as the loop goes.
RECURSIVE SetLoop(_, _, _)
SetLoop(varbindlist, i, st) ==
    IF i >= Len(varbindlist) THEN st
    ELSE LET name == varbindlist[i + 1].name
             value_ber == varbindlist[i + 1].value
             set == setValue(st.mib_values, name, value_ber.v)
             failed == Failed(st, i, name, TagNoSuchObject)
         IN  SetLoop(varbindlist, i + 1,
                     IF value_ber.tag = TagOctetString
                     THEN IF set.ret
                          THEN [st EXCEPT !.mib_values = set.mib_values,
                                          !.response = add(@, name, OctetStringBER(value_ber.v))]
                          ELSE [failed EXCEPT !.mib_values = set.mib_values]
                     ELSE failed)

\* SNMPAgentApp::handleSetRequest: the MIB and the response afterwards.
handleSetRequest(mib_values, response, varbindlist) ==
    LET st == SetLoop(varbindlist, 0,
                      [mib_values |-> mib_values, response |-> response,
                       error |-> FALSE, error_index |-> 0])
    IN  [mib_values |-> st.mib_values,
         response |-> IF st.error
                      THEN setError(st.response, ErrorBadValue, st.error_index)
                      ELSE st.response]

\* SNMPAgentApp::createResponse, wrongly answering in SNMPv1 whatever the
\* version of the request.
createResponseV1(mib_values, request, type, version, community, varbindlist, uptime) ==
    LET response == setRequestID(NewMessage(0, community, TagGetResponse),
                                 request.requestID)
    IN  CASE type = TagGetRequest ->
               [mib_values |-> mib_values,
                response |-> << handleGetRequest(mib_values, response, varbindlist, uptime) >>]
          [] type = TagGetNextRequest ->
               [mib_values |-> mib_values,
                response |-> << handleGetNextRequest(mib_values, response, varbindlist, uptime) >>]
          [] type = TagSetRequest ->
               LET r == handleSetRequest(mib_values, response, varbindlist)
               IN  [mib_values |-> r.mib_values, response |-> << r.response >>]
          [] OTHER -> [mib_values |-> mib_values, response |-> << >>]

\* SNMPAgentApp::createResponse: the MIB afterwards and the response, a
\* sequence of one message, or << >> for the null pointer.
createResponse(mib_values, request, type, version, community, varbindlist, uptime) ==
    LET response == setRequestID(NewMessage(version, community, TagGetResponse),
                                 request.requestID)
    IN  CASE type = TagGetRequest ->
               [mib_values |-> mib_values,
                response |-> << handleGetRequest(mib_values, response, varbindlist, uptime) >>]
          [] type = TagGetNextRequest ->
               [mib_values |-> mib_values,
                response |-> << handleGetNextRequest(mib_values, response, varbindlist, uptime) >>]
          [] type = TagSetRequest ->
               LET r == handleSetRequest(mib_values, response, varbindlist)
               IN  [mib_values |-> r.mib_values, response |-> << r.response >>]
          [] OTHER -> [mib_values |-> mib_values, response |-> << >>]

\* SNMPAgentApp::handleMessage, wrongly answering every community.
handleMessageAnyCommunity(mib_values, message, remote, port, uptime) ==
    LET r == createResponse(mib_values, message, message.type, message.version,
                            message.community, message.varbinds, uptime)
    IN  [mib_values |-> r.mib_values,
         sent |-> IF r.response # << >>
                  THEN << [m |-> r.response[1], ip |-> remote, port |-> port] >>
                  ELSE << >>]

\* SNMPAgentApp::handleMessage: the MIB afterwards and the calls of
\* agent_->send(response, remote, port) it made.
handleMessage(mib_values, message, remote, port, uptime) ==
    IF message.community # "public"
    THEN [mib_values |-> mib_values, sent |-> << >>]
    ELSE LET r == createResponse(mib_values, message, message.type, message.version,
                                 message.community, message.varbinds, uptime)
         IN  [mib_values |-> r.mib_values,
              sent |-> IF r.response # << >>
                       THEN << [m |-> r.response[1], ip |-> remote, port |-> port] >>
                       ELSE << >>]

\* The messages the example agent is handed: up to MaxVarBinds varbinds
\* over the OIDs and values below, from either peer.
MaxVarBinds == 2
Communities == {"public", "private"}
RequestTypes == {TagGetRequest, TagGetNextRequest, TagGetResponse, TagSetRequest,
                 TagGetBulkRequest}
RequestOIDs == {SYSDESCR_OID, SYSUPTIME_OID, SYSNAME_OID, SYSLOCATION_OID}
RequestValues == {OctetStringBER("lab"), IntegerBER(1)}
VarBindLists ==
    UNION {[1..n -> {[name |-> o, value |-> v] : o \in RequestOIDs, v \in RequestValues}] :
              n \in 0..MaxVarBinds}
Origins == {[version |-> 0, requestID |-> 1, from |-> PeerA],
            [version |-> 1, requestID |-> 2, from |-> PeerB]}
Requests ==
    {[message |-> [version |-> o.version, community |-> c, type |-> t,
                   requestID |-> o.requestID, errorStatus |-> 0, errorIndex |-> 0,
                   varbinds |-> l],
      from |-> o.from] :
        o \in Origins, c \in Communities, t \in RequestTypes, l \in VarBindLists}

\* What getUptime() reads off the steady clock, in hundredths of a second.
Uptimes == {4200}

\* Messages the endpoint hands the example agent, one after the other.
MaxMessages == 2

\* The example agent as constructed: mib_, and, for the message handled
\* last, the MIB before it, the message and the calls of agent_->send.
AppInit ==
    [mib_ |-> SimpleMIB, before |-> SimpleMIB, received |-> << >>, sent |-> << >>,
     handled |-> 0]

\* ------------------------------------------------------------------ state
VARIABLES
    role,           \* the class of the endpoint: "Agent" or "Manager"
    refs,           \* the SNMP object: whether it is alive, and whether the
                    \* user still holds the shared_ptr that create() returned
    _defaultPort,   \* SNMP::_defaultPort
    _udp,           \* SNMP::_udp: 0 (null) or the index of an AsioUDP object
    _onMessage,     \* SNMP::_onMessage: 0 (nullptr) or a handler
    _onError,       \* SNMP::_onError: 0 (nullptr) or a handler
    udp,            \* the AsioUDP objects created so far, by index
    ready,          \* io_context: completion handlers ready to run, in order
                    \* (d: the datagram the completed receive stored, if any)
    nUdp,           \* AsioUDP objects created
    nOps,           \* calls the user has made
    nDatagrams,     \* datagrams the network has delivered
    nErrors,        \* receive errors the network has reported
    last,           \* the operation that ran last, with its inputs and result
    calls,          \* the user handler invocations made by that operation
    hist,           \* history: what has happened so far (see HistInit)
    codec,          \* the BER codec: the operation applied last and its result
    app             \* the example agent: its MIB and the message handled last

vars == << role, refs, _defaultPort, _udp, _onMessage, _onError, udp, ready, nUdp, nOps,
           nDatagrams, nErrors, last, calls, hist, codec, app >>

\* An AsioUDP object as its constructor leaves it (alive = FALSE: not yet
\* constructed, or destroyed).
NewUDP ==
    [ alive |-> FALSE,
      open |-> FALSE,               \* socket_.is_open()
      bind |-> "unbound",           \* "unbound", "bound" or "auto" (by send_to)
      port |-> 0,                   \* the local port when bound
      addr |-> AddrAny,             \* the local address when bound
      receiving_ |-> FALSE,
      rx_buffer_ |-> Zeros(BufferSize),
      tx_buffer_ |-> Zeros(BufferSize),
      remote_endpoint_ |-> [addr |-> <<0, 0>>, port |-> 0],
      tx_endpoint_ |-> [addr |-> <<0, 0>>, port |-> 0],
      rx_pos_ |-> 0,
      rx_available_ |-> 0,
      packet_callback_ |-> FALSE,   \* whether a callback is set
      error_callback_ |-> FALSE,
      pending |-> 0,                \* async_receive_from operations outstanding
      inq |-> << >> ]               \* datagrams waiting in the socket

\* What an operation reports: its name, the AsioUDP object it ran on, the
\* completion it handled (error code, bytes transferred), its return value,
\* the receives it posted and the send_to calls it made; its arguments (arg)
\* and, in order, the events of its execution (ev): "new Message" and
\* "delete Message" of the Message of a received datagram, "~Message" of a
\* Message passed to send(), "enter msg" / "exit msg" and "enter err" /
\* "exit err" of the user's handlers, "send_to" and, for a receive posted by
\* handleReceive, "post".
Op(op, u, ec, n, ret, posted, sent) ==
    [ op |-> op, u |-> u, ec |-> ec, n |-> n, ret |-> ret,
      posted |-> posted, sent |-> sent, arg |-> << >>, ev |-> << >> ]

\* An event of the network (no operation of the program ran).
NetOp == Op("network", 0, NoError, 0, TRUE, 0, << >>)

HistInit ==
    [ startCalled |-> FALSE,        \* start() has been called
      stopCalled |-> FALSE,         \* stop() has been called
      \* the datagrams (by request id) that reached the current socket after
      \* stop(), the endpoint not having been started again since, and that
      \* have not been handed to a handler yet
      afterStop |-> {},
      \* per AsioUDP object, the messages handed to the message handler so
      \* far, in order: request id and remote peer as the handler saw them
      delivered |-> [i \in 1..MaxInit |-> << >>],
      \* the handlers the user passed last to onMessage and to onError
      msgHandler |-> 0,
      errHandler |-> 0,
      \* the handlers that the user has replaced by another one
      replaced |-> {},
      \* the Messages made for received datagrams and not deleted yet
      live |-> 0,
      \* the datagrams that reached the current socket between a stop() and
      \* the start() that followed it
      missed |-> {} ]

\* Agent::Agent and Manager::Manager: the default port each passes to the
\* constructor of SNMP.
DefaultPortAgentOnly(r) == PortSNMP

DefaultPort(r) == IF r = "Agent" THEN PortSNMP ELSE PortTrap

EndpointInit ==
    /\ role \in {"Agent", "Manager"}
    /\ refs = [alive |-> TRUE, user |-> TRUE]
    /\ _defaultPort = DefaultPort(role)
    /\ _udp = 0
    /\ _onMessage = 0
    /\ _onError = 0
    /\ udp = [i \in 1..MaxInit |-> NewUDP]
    /\ ready = << >>
    /\ nUdp = 0
    /\ nDatagrams = 0
    /\ nErrors = 0
    /\ nOps = 0
    /\ last = Op("create", 0, NoError, 0, TRUE, 0, << >>)
    /\ calls = << >>
    /\ hist = HistInit

\* The endpoint as constructed; the codec and the example agent, which the
\* endpoint's operations leave alone, have their own specifications below.
Init == EndpointInit /\ codec = CodecIdle /\ app = AppInit

\* ----------------------------------------------------------------- AsioUDP
\* AsioUDP::startReceive: post one async_receive_from on rx_buffer_ and
\* remote_endpoint_, unless the socket is closed or receiving_ is false.
startReceive(s) ==
    IF ~s.open \/ ~s.receiving_
    THEN s
    ELSE [s EXCEPT !.pending = @ + 1]

\* startReceiving without its test of receiving_: every call posts a receive.
startReceivingAlways(s) ==
    IF ~s.open \/ ~s.packet_callback_
    THEN [s |-> s, ret |-> FALSE]
    ELSE [s |-> startReceive([s EXCEPT !.receiving_ = TRUE]), ret |-> TRUE]

\* AsioUDP::startReceiving: the new object and the value returned.
startReceiving(s) ==
    IF ~s.open \/ ~s.packet_callback_
    THEN [s |-> s, ret |-> FALSE]
    ELSE IF ~s.receiving_
         THEN [s |-> startReceive([s EXCEPT !.receiving_ = TRUE]), ret |-> TRUE]
         ELSE [s |-> s, ret |-> TRUE]

\* AsioUDP::stopReceiving: clears the flag (and returns true).
stopReceiving(s) == [s EXCEPT !.receiving_ = FALSE]

\* socket_.close(): the socket leaves its port and drops what it holds.
CloseSocket(s) ==
    [s EXCEPT !.open = FALSE, !.bind = "unbound", !.port = 0, !.addr = AddrAny,
              !.inq = << >>]

\* AsioUDP::stop: stopReceiving(), then close the socket if it is open.
stop(s) ==
    LET t == stopReceiving(s)
    IN  IF t.open THEN CloseSocket(t) ELSE t

\* AsioUDP::~AsioUDP: stop() stops the loop and closes the socket, and the
\* object's members are destroyed: nothing of it is left.
Destroy(s) == [stop(s) EXCEPT !.alive = FALSE, !.receiving_ = FALSE,
                             !.rx_buffer_ = Zeros(BufferSize),
                             !.tx_buffer_ = Zeros(BufferSize),
                             !.remote_endpoint_ = NewUDP.remote_endpoint_,
                             !.tx_endpoint_ = NewUDP.tx_endpoint_,
                             !.rx_pos_ = 0, !.rx_available_ = 0,
                             !.packet_callback_ = FALSE,
                             !.error_callback_ = FALSE]

\* AsioUDP::setPacketCallback: stores the callback and starts receiving if
\* the socket is already open and the loop is not running.
setPacketCallback(s) ==
    LET t == [s EXCEPT !.packet_callback_ = TRUE]
    IN  IF t.open /\ ~t.receiving_ THEN startReceiving(t).s ELSE t

\* AsioUDP::setErrorCallback.
setErrorCallback(s) == [s EXCEPT !.error_callback_ = TRUE]

\* The error callback SNMP::initialize installs: forwards to _onError when
\* one is registered. The invocations it makes.
ErrorCallback(ec, onErr) ==
    IF onErr # 0
    THEN << [kind |-> "err", h |-> onErr, code |-> ec] >>
    ELSE << >>

\* AsioUDP::begin on a socket that is not open (SNMP::initialize calls it on
\* a freshly constructed AsioUDP only): open, bind, start receiving when a
\* packet callback is set. openOk and bindOk are the operating system's
\* answers. The new object, the value returned, and the error callback's
\* invocations.
begin(s, port, openOk, bindOk, onErr) ==
    IF ~openOk
    THEN [s |-> s, ret |-> FALSE, ec |-> OpenError,
          calls |-> IF s.error_callback_ THEN ErrorCallback(OpenError, onErr) ELSE << >>]
    ELSE LET o == [s EXCEPT !.open = TRUE]
         IN  IF ~bindOk
             THEN [s |-> o, ret |-> FALSE, ec |-> BindError,
                   calls |-> IF o.error_callback_
                             THEN ErrorCallback(BindError, onErr) ELSE << >>]
             ELSE LET b == [o EXCEPT !.bind = "bound", !.port = port,
                                     !.addr = AddrAny]
                  IN  [s |-> IF b.packet_callback_ THEN startReceiving(b).s ELSE b,
                       ret |-> TRUE, ec |-> NoError, calls |-> << >>]

\* beginPacket without tx_buffer_.clear().
beginPacketNoClear(s, ip, port) ==
    [s EXCEPT !.tx_endpoint_ = [addr |-> IPAddressToUint32(ip), port |-> port]]

\* AsioUDP::beginPacket(ip, port): the destination, and an empty tx_buffer_.
beginPacket(s, ip, port) ==
    [s EXCEPT !.tx_endpoint_ = [addr |-> IPAddressToUint32(ip), port |-> port],
              !.tx_buffer_ = << >>]

\* write that stores the bytes in the receive buffer as well.
writeIntoRx(s, buffer, size) ==
    [s EXCEPT !.tx_buffer_ = @ \o Prefix(buffer, size),
              !.rx_buffer_ = [j \in 1..Len(@) |->
                                 IF j <= Min(size, Len(buffer)) THEN buffer[j] ELSE @[j]]]

\* AsioUDP::write(buffer, size): appends to tx_buffer_.
write(s, buffer, size) ==
    [s EXCEPT !.tx_buffer_ = @ \o Prefix(buffer, size)]

\* The packet callback handed the transmit buffer instead.
PacketDataTx(s) == s.tx_buffer_ \o Zeros(BufferSize)

\* The bytes the packet callback is handed: rx_buffer_.data().
PacketData(s) == s.rx_buffer_

\* The events of the handler invocations an operation made one after the
\* other, each handler returning before the next is called.
CallEv(cs) ==
    IF cs = << >> THEN << >>
    ELSE IF cs[1].kind = "msg" THEN << "enter msg", "exit msg" >>
    ELSE << "enter err", "exit err" >>

\* An operation on the AsioUDP objects u that called no user code, and one
\* that only invoked handlers that returned at once.
Nothing(u) == [u |-> u, calls |-> << >>, ev |-> << >>, sent |-> << >>]
Called(u, cs) == [u |-> u, calls |-> cs, ev |-> CallEv(cs), sent |-> << >>]

\* AsioUDP::endPacket: one send_to of tx_buffer_ to tx_endpoint_ when the
\* socket is open (res is the operating system's answer; a successful
\* send_to on an unbound socket binds it to a port of the system's choice).
\* The new object, the value returned, the send_to calls made and the error
\* callback's invocations.
endPacket(s, res, onErr) ==
    IF ~s.open
    THEN [s |-> s, ret |-> FALSE, sent |-> << >>, calls |-> << >>]
    ELSE LET ec == IF res = "error" THEN SendError ELSE NoError
             bytes_sent == CASE res = "ok" -> Len(s.tx_buffer_)
                             [] res = "short" -> Len(s.tx_buffer_) - 1
                             [] OTHER -> 0
             call == [to |-> s.tx_endpoint_, payload |-> s.tx_buffer_,
                      ec |-> ec, bytes_sent |-> bytes_sent]
         IN  IF ec # NoError
             THEN [s |-> s, ret |-> FALSE, sent |-> << call >>,
                   calls |-> IF s.error_callback_
                             THEN ErrorCallback(ec, onErr) ELSE << >>]
             ELSE [s |-> IF s.bind = "unbound" THEN [s EXCEPT !.bind = "auto"] ELSE s,
                   ret |-> (bytes_sent = Len(s.tx_buffer_)),
                   sent |-> << call >>, calls |-> << >>]

\* The body of SNMP::send on a non-null _udp (SNMP_STREAM = 0): a buffer of
\* getSize() bytes filled by build(), then beginPacket, write, endPacket.
send(s, m, ip, port, res, onErr) ==
    LET length == GetSize(m)
        built == Build(m)
        buffer == [j \in 1..length |-> IF j <= Len(built) THEN built[j] ELSE 0]
    IN  endPacket(write(beginPacket(s, ip, port), buffer, length), res, onErr)

\* The events of a send: the send_to call, then the error handler if the
\* error callback invoked it.
SendEv(r) ==
    (IF r.sent = << >> THEN << >> ELSE << "send_to" >>) \o CallEv(r.calls)

\* SNMP::send(Message*, ip, port) on the AsioUDP objects u, cur being _udp:
\* returns false when _udp is null; the Message is left to the caller.
SNMP_send(u, cur, m, ip, port, res, onErr) ==
    IF cur = 0
    THEN [u |-> u, ret |-> FALSE, sent |-> << >>, calls |-> << >>, ev |-> << >>]
    ELSE LET r == send(u[cur], m, ip, port, res, onErr)
         IN  [u |-> [u EXCEPT ![cur] = r.s], ret |-> r.ret, sent |-> r.sent,
              calls |-> r.calls, ev |-> SendEv(r)]

\* SNMP::send(std::unique_ptr<Message>, ip, port): send(message.get(), ...),
\* and the unique_ptr parameter destroys the Message when the call returns.
SNMP_sendUnique(u, cur, m, ip, port, res, onErr) ==
    LET r == SNMP_send(u, cur, m, ip, port, res, onErr)
    IN  [r EXCEPT !.ev = @ \o << "~Message" >>]

\* What the user's message handler does with a message: it returns at once,
\* or (as the example agent's handleMessage) it answers the sender with a
\* GetResponse carrying the request id, send_to accepting it or failing.
HandlerBodies == {"return", "reply", "reply fails"}

\* The user's message handler, invoked with the message parsed from data.
MessageHandler(u, cur, data, remote, port, onErr, body) ==
    IF body = "return"
    THEN [u |-> u, calls |-> << >>, ev |-> << >>, sent |-> << >>]
    ELSE LET r == SNMP_sendUnique(u, cur,
                      [type |-> TagGetResponse, id |-> RequestIdOf(data)],
                      remote, port,
                      IF body = "reply" THEN "ok" ELSE "error", onErr)
         IN  [u |-> r.u, calls |-> r.calls, ev |-> r.ev, sent |-> r.sent]

\* handlePacket without its delete: the Message is never destroyed.
handlePacketLeaks(u, cur, data, length, remote, port, onMsg, onErr, body) ==
    LET buffer == Prefix(data, length)
    IN  IF onMsg # 0
        THEN LET h == MessageHandler(u, cur, buffer, remote, port, onErr, body)
             IN  [u |-> h.u,
                  calls |-> << [kind |-> "msg", h |-> onMsg, data |-> buffer,
                                parsed |-> ParseOK(buffer), ip |-> remote,
                                port |-> port] >> \o h.calls,
                  ev |-> << "new Message", "enter msg" >> \o h.ev
                            \o << "exit msg" >>,
                  sent |-> h.sent]
        ELSE [u |-> u, calls |-> << >>, ev |-> << "new Message" >>, sent |-> << >>]

\* SNMP::handlePacket (SNMP_STREAM = 0): makes a Message, copies the first
\* length bytes, parses them (the result of parse() is not looked at), calls
\* _onMessage when one is registered, and deletes the Message. The objects
\* after it, the invocations it made, its events and the send_to calls made.
handlePacket(u, cur, data, length, remote, port, onMsg, onErr, body) ==
    LET buffer == Prefix(data, length)
    IN  IF onMsg # 0
        THEN LET h == MessageHandler(u, cur, buffer, remote, port, onErr, body)
             IN  [u |-> h.u,
                  calls |-> << [kind |-> "msg", h |-> onMsg, data |-> buffer,
                                parsed |-> ParseOK(buffer), ip |-> remote,
                                port |-> port] >> \o h.calls,
                  ev |-> << "new Message" >> \o ParseEv(buffer) \o << "enter msg" >>
                            \o h.ev \o << "exit msg", "delete Message" >>,
                  sent |-> h.sent]
        ELSE [u |-> u, calls |-> << >>,
              ev |-> << "new Message" >> \o ParseEv(buffer) \o << "delete Message" >>,
              sent |-> << >>]

\* The end of handleReceive: another receive is queued if still receiving.
QueueNext(c, i) ==
    LET v == c.u
        w == IF v[i].receiving_ THEN startReceive(v[i]) ELSE v[i]
    IN  [u |-> [v EXCEPT ![i] = w], calls |-> c.calls, sent |-> c.sent,
         ev |-> c.ev \o (IF w.pending > v[i].pending THEN << "post" >> ELSE << >>)]

\* handleReceive that posts the next receive only after a datagram.
handleReceiveStopsOnError(u, i, error, n, cur, onMsg, onErr, body) ==
    LET t == IF error = NoError /\ n > 0
             THEN [u EXCEPT ![i].rx_pos_ = 0, ![i].rx_available_ = n]
             ELSE u
        c == IF error = NoError /\ n > 0
             THEN IF t[i].packet_callback_
                  THEN handlePacket(t, cur, PacketData(t[i]), n,
                                    IPAddressFromUint32(t[i].remote_endpoint_.addr),
                                    t[i].remote_endpoint_.port, onMsg, onErr, body)
                  ELSE Nothing(t)
             ELSE IF error # NoError /\ error # OperationAborted
                  THEN IF t[i].error_callback_
                       THEN Called(t, ErrorCallback(error, onErr)) ELSE Nothing(t)
                  ELSE Nothing(t)
    IN  IF error = NoError THEN QueueNext(c, i) ELSE c

\* handleReceive without its test for operation_aborted.
handleReceiveReportsAborted(u, i, error, n, cur, onMsg, onErr, body) ==
    LET t == IF error = NoError /\ n > 0
             THEN [u EXCEPT ![i].rx_pos_ = 0, ![i].rx_available_ = n]
             ELSE u
        c == IF error = NoError /\ n > 0
             THEN IF t[i].packet_callback_
                  THEN handlePacket(t, cur, PacketData(t[i]), n,
                                    IPAddressFromUint32(t[i].remote_endpoint_.addr),
                                    t[i].remote_endpoint_.port, onMsg, onErr, body)
                  ELSE Nothing(t)
             ELSE IF error # NoError
                  THEN IF t[i].error_callback_
                       THEN Called(t, ErrorCallback(error, onErr)) ELSE Nothing(t)
                  ELSE Nothing(t)
    IN  QueueNext(c, i)

\* AsioUDP::handleReceive, wrongly handing a completion of zero bytes to the
\* packet callback.
handleReceiveDeliversEmpty(u, i, error, n, cur, onMsg, onErr, body) ==
    LET t == IF error = NoError
             THEN [u EXCEPT ![i].rx_pos_ = 0, ![i].rx_available_ = n]
             ELSE u
        c == IF error = NoError
             THEN IF t[i].packet_callback_
                  THEN handlePacket(t, cur, PacketData(t[i]), n,
                                    IPAddressFromUint32(t[i].remote_endpoint_.addr),
                                    t[i].remote_endpoint_.port, onMsg, onErr, body)
                  ELSE Nothing(t)
             ELSE IF error # OperationAborted
                  THEN IF t[i].error_callback_
                       THEN Called(t, ErrorCallback(error, onErr)) ELSE Nothing(t)
                  ELSE Nothing(t)
    IN  QueueNext(c, i)

\* AsioUDP::handleReceive(error, bytes_transferred) of object i among the
\* AsioUDP objects u (cur is the endpoint's _udp, which a handler sends
\* through): the objects after it, the user handler invocations made through
\* the two callbacks, its events and the send_to calls made.
handleReceive(u, i, error, n, cur, onMsg, onErr, body) ==
    LET t == IF error = NoError /\ n > 0
             THEN [u EXCEPT ![i].rx_pos_ = 0, ![i].rx_available_ = n]
             ELSE u
        c == IF error = NoError /\ n > 0
             THEN IF t[i].packet_callback_
                  THEN handlePacket(t, cur, PacketData(t[i]), n,
                                    IPAddressFromUint32(t[i].remote_endpoint_.addr),
                                    t[i].remote_endpoint_.port, onMsg, onErr, body)
                  ELSE Nothing(t)
             ELSE IF error # NoError /\ error # OperationAborted
                  THEN IF t[i].error_callback_
                       THEN Called(t, ErrorCallback(error, onErr)) ELSE Nothing(t)
                  ELSE Nothing(t)
    IN  QueueNext(c, i)

\* -------------------------------------------------------------------- SNMP
\* A registration that takes effect only while no handler is set.
SetHandlerOnce(old, new) == IF old = 0 THEN new ELSE old

\* SNMP::onMessage / SNMP::onError: the handler member after the assignment.
SetHandler(old, new) == new

\* An AsioUDP object is kept alive by the SNMP object's _udp and by the
\* shared self-reference every posted receive captures (startReceive), until
\* its completion handler has run.
Referenced(u, i, q, current) ==
    \/ i = current
    \/ u[i].pending > 0
    \/ \E j \in 1..Len(q) : q[j].u = i

\* The objects after the ones nothing refers to any more are destroyed.
Release(u, q, current) ==
    [i \in 1..MaxInit |->
        IF u[i].alive /\ ~Referenced(u, i, q, current) THEN Destroy(u[i]) ELSE u[i]]

\* Whether no open socket of this process is bound to the port.
PortFree(u, port) ==
    \A i \in 1..MaxInit : ~(u[i].alive /\ u[i].open /\ u[i].bind = "bound"
                            /\ u[i].port = port)

\* SNMP::initialize(bindAddress, port): a new AsioUDP replaces _udp, gets
\* the two callbacks and is opened and bound with begin(port).
Initialize(bindAddress, port, openOk, bindOk) ==
    /\ refs.user
    /\ nOps < MaxUserOps /\ nUdp < MaxInit
    /\ nOps' = nOps + 1
    /\ LET p == IF port = 0 THEN _defaultPort ELSE port
           i == nUdp + 1
           released == Release(udp, ready, i)
           s0 == setErrorCallback(setPacketCallback([NewUDP EXCEPT !.alive = TRUE]))
           r == begin(s0, p, openOk, bindOk, _onError)
       IN  /\ bindOk => PortFree(released, p)
           /\ udp' = [released EXCEPT ![i] = r.s]
           /\ _udp' = i
           /\ nUdp' = i
           /\ last' = [Op("initialize", i, r.ec, 0, r.ret, r.s.pending, << >>)
                         EXCEPT !.arg = << bindAddress, port >>]
           /\ calls' = r.calls
    /\ hist' = [hist EXCEPT
           !.afterStop = {},
           !.missed = {},
           !.delivered = [i \in 1..MaxInit |-> IF udp'[i].alive THEN @[i] ELSE << >>]]
    /\ UNCHANGED << codec, app, role, refs, _defaultPort, _onMessage, _onError, ready,
                    nDatagrams, nErrors >>

\* SNMP::start on the AsioUDP objects u, cur being _udp: false when _udp is
\* null, else what startReceiving() returns.
SNMP_start(u, cur) ==
    IF cur = 0
    THEN [u |-> u, ret |-> FALSE]
    ELSE LET x == startReceiving(u[cur])
         IN  [u |-> [u EXCEPT ![cur] = x.s], ret |-> x.ret]

\* SNMP::stop that does not test _udp.
SNMP_stopReturnsTrue(u, cur) ==
    IF cur = 0
    THEN [u |-> u, ret |-> TRUE]
    ELSE [u |-> [u EXCEPT ![cur] = stopReceiving(u[cur])], ret |-> TRUE]

\* SNMP::stop: false when _udp is null, else what stopReceiving() returns.
SNMP_stop(u, cur) ==
    IF cur = 0
    THEN [u |-> u, ret |-> FALSE]
    ELSE [u |-> [u EXCEPT ![cur] = stopReceiving(u[cur])], ret |-> TRUE]

\* SNMP::start.
Start ==
    /\ refs.user
    /\ nOps < MaxUserOps
    /\ nOps' = nOps + 1
    /\ LET x == SNMP_start(udp, _udp)
           r == [ret |-> x.ret,
                 posted |-> IF _udp = 0 THEN 0
                            ELSE x.u[_udp].pending - udp[_udp].pending]
       IN  /\ udp' = x.u
           /\ last' = Op("start", _udp, NoError, 0, r.ret, r.posted, << >>)
           /\ hist' = [hist EXCEPT
                  !.startCalled = TRUE,
                  !.afterStop = IF r.ret THEN {} ELSE @,
                  !.missed = IF r.ret THEN @ \cup hist.afterStop ELSE @]
    /\ calls' = << >>
    /\ UNCHANGED << codec, app, role, refs, _defaultPort, _udp, _onMessage, _onError, ready, nUdp,
                    nDatagrams, nErrors >>

\* SNMP::stop.
Stop ==
    /\ refs.user
    /\ nOps < MaxUserOps
    /\ nOps' = nOps + 1
    /\ udp' = SNMP_stop(udp, _udp).u
    /\ last' = Op("stop", _udp, NoError, 0, SNMP_stop(udp, _udp).ret, 0, << >>)
    /\ hist' = [hist EXCEPT !.stopCalled = @ \/ _udp # 0]
    /\ calls' = << >>
    /\ UNCHANGED << codec, app, role, refs, _defaultPort, _udp, _onMessage, _onError, ready, nUdp,
                    nDatagrams, nErrors >>

\* SNMP::onMessage(handler), with a handler not registered before.
OnMessage ==
    /\ refs.user
    /\ nOps < MaxUserOps
    /\ nOps' = nOps + 1
    /\ _onMessage' = SetHandler(_onMessage, nOps + 1)
    /\ hist' = [hist EXCEPT !.msgHandler = nOps + 1,
                            !.replaced = @ \cup ({hist.msgHandler} \ {0})]
    /\ last' = Op("onMessage", 0, NoError, 0, TRUE, 0, << >>)
    /\ calls' = << >>
    /\ UNCHANGED << codec, app, role, refs, _defaultPort, _udp, _onError, udp, ready, nUdp,
                    nDatagrams, nErrors >>

\* SNMP::onError(handler), with a handler not registered before.
OnError ==
    /\ refs.user
    /\ nOps < MaxUserOps
    /\ nOps' = nOps + 1
    /\ _onError' = SetHandler(_onError, nOps + 1)
    /\ hist' = [hist EXCEPT !.errHandler = nOps + 1,
                            !.replaced = @ \cup ({hist.errHandler} \ {0})]
    /\ last' = Op("onError", 0, NoError, 0, TRUE, 0, << >>)
    /\ calls' = << >>
    /\ UNCHANGED << codec, app, role, refs, _defaultPort, _udp, _onMessage, udp, ready, nUdp,
                    nDatagrams, nErrors >>

\* The send() calls the user makes: which message to which peer, passed
\* as a Message* ("raw") or as a std::unique_ptr<Message> ("unique").
Sends == { [m |-> [type |-> TagGetResponse, id |-> 1], to |-> PeerA,
            overload |-> "unique"],
           [m |-> [type |-> TagGetResponse, id |-> MaxDatagrams], to |-> PeerB,
            overload |-> "raw"] }

\* What send_to can answer: all bytes sent, fewer bytes sent, or an error.
SendResults == {"ok", "short", "error"}

\* SNMP::send(message, ip, port), either overload.
Send(m, ip, port, overload, res) ==
    /\ refs.user
    /\ nOps < MaxUserOps
    /\ nOps' = nOps + 1
    /\ LET r == IF overload = "raw"
                THEN SNMP_send(udp, _udp, m, ip, port, res, _onError)
                ELSE SNMP_sendUnique(udp, _udp, m, ip, port, res, _onError)
       IN  /\ udp' = r.u
           /\ last' = [Op("send", _udp, NoError, 0, r.ret, 0, r.sent)
                         EXCEPT !.arg = << m, ip, port, overload >>, !.ev = r.ev]
           /\ calls' = r.calls
    /\ UNCHANGED << codec, app, role, refs, _defaultPort, _udp, _onMessage, _onError, ready, nUdp,
                    nDatagrams, nErrors, hist >>

\* ------------------------------------------------------------ the network
\* Whether a socket receives the datagrams sent to a local address: those
\* sent to the address it is bound to, all of them when that is 0.0.0.0.
Accepts(s, to) == s.addr = AddrAny \/ s.addr = to

\* A datagram from a peer, sent to a local address of the host, reaches a
\* socket that has a local port.
Arrive(i, peer, form, to) ==
    /\ nDatagrams < MaxDatagrams
    /\ udp[i].alive /\ udp[i].open /\ udp[i].bind # "unbound"
    /\ Accepts(udp[i], to)
    /\ LET k == nDatagrams + 1
       IN  /\ nDatagrams' = k
           /\ udp' = [udp EXCEPT ![i].inq =
                         Append(@, [from |-> peer, to |-> to,
                                    data |-> Payload(form, k)])]
           /\ hist' = [hist EXCEPT
                  !.afterStop = IF i = _udp /\ hist.stopCalled /\ ~udp[i].receiving_
                                THEN @ \cup {k} ELSE @]
    /\ last' = NetOp
    /\ calls' = << >>
    /\ UNCHANGED << codec, app, role, refs, _defaultPort, _udp, _onMessage, _onError, ready, nUdp, nOps,
                    nErrors >>

\* The bytes of a datagram that async_receive_from stores through
\* asio::buffer(rx_buffer_), unbounded: the buffer grows with the datagram.
receive_fromUnbounded(s, d) ==
    [s |-> [s EXCEPT !.rx_buffer_ = [j \in 1..(IF Len(d.data) > Len(@) THEN Len(d.data) ELSE Len(@)) |->
                                        IF j <= Len(d.data) THEN d.data[j] ELSE @[j]],
                     !.remote_endpoint_ = [addr |-> IPAddressToUint32(d.from.ip),
                                           port |-> d.from.port]],
     n |-> Len(d.data)]

\* socket_.async_receive_from(asio::buffer(rx_buffer_), remote_endpoint_)
\* completing with datagram d: as many of its bytes as rx_buffer_ holds are
\* stored in it, the rest of the buffer is left as it was, and the sender is
\* stored in remote_endpoint_. The new object and bytes_transferred.
receive_from(s, d) ==
    LET n == Min(Len(d.data), Len(s.rx_buffer_))
    IN  [s |-> [s EXCEPT !.rx_buffer_ = [j \in 1..Len(@) |->
                                            IF j <= n THEN d.data[j] ELSE @[j]],
                         !.remote_endpoint_ = [addr |-> IPAddressToUint32(d.from.ip),
                                               port |-> d.from.port]],
         n |-> n]

\* The reactor completes the oldest outstanding receive of a socket with
\* the oldest datagram waiting in it: the bytes go to rx_buffer_ (as many as
\* fit), the sender to remote_endpoint_, and the completion handler is
\* queued on the io_context.
IoComplete(i) ==
    /\ udp[i].alive /\ udp[i].pending > 0 /\ udp[i].inq # << >>
    /\ LET d == Head(udp[i].inq)
           r == receive_from(udp[i], d)
       IN  /\ udp' = [udp EXCEPT
                  ![i] = [r.s EXCEPT !.inq = Tail(@), !.pending = @ - 1]]
           /\ ready' = Append(ready, [u |-> i, ec |-> NoError, n |-> r.n,
                                      d |-> << [data |-> d.data, from |-> d.from] >>])
    /\ last' = NetOp
    /\ calls' = << >>
    /\ UNCHANGED << codec, app, role, refs, _defaultPort, _udp, _onMessage, _onError, nUdp, nOps,
                    nDatagrams, nErrors, hist >>

\* The reactor completes an outstanding receive with an error.
IoError(i, e) ==
    /\ nErrors < MaxErrors
    /\ udp[i].alive /\ udp[i].pending > 0
    /\ nErrors' = nErrors + 1
    /\ udp' = [udp EXCEPT ![i].pending = @ - 1]
    /\ ready' = Append(ready, [u |-> i, ec |-> e, n |-> 0, d |-> << >>])
    /\ last' = NetOp
    /\ calls' = << >>
    /\ UNCHANGED << codec, app, role, refs, _defaultPort, _udp, _onMessage, _onError, nUdp, nOps,
                    nDatagrams, hist >>

\* The request ids of the messages handed to the message handler.
DeliveredIds(cs) ==
    { RequestIdOf(cs[j].data) : j \in { x \in 1..Len(cs) : cs[x].kind = "msg" } } \ {0}

\* The same as a sequence (an operation hands over at most one message),
\* each with the remote peer the handler was given.
Deliveries(cs) ==
    IF Len(cs) >= 1 /\ cs[1].kind = "msg" /\ RequestIdOf(cs[1].data) # 0
    THEN << [id |-> RequestIdOf(cs[1].data), ip |-> cs[1].ip, port |-> cs[1].port] >>
    ELSE << >>

\* How many times an event occurs among the events of an operation.
Count(ev, e) == Cardinality({ j \in 1..Len(ev) : ev[j] = e })

\* The SNMP object is referenced by the user's shared_ptr and by the
\* shared_from_this() that the two callbacks of every AsioUDP object capture
\* (initialize).
SelfCaptured(u) ==
    \E i \in 1..MaxInit : u[i].alive /\ (u[i].packet_callback_ \/ u[i].error_callback_)

\* The SNMP object after a reference to it may have gone: it is destroyed
\* when none is left.
RefsAfter(r, u) ==
    IF ~r.user /\ ~SelfCaptured(u) THEN [alive |-> FALSE, user |-> FALSE] ELSE r

\* The user releases the shared_ptr that create() returned, its last
\* reference to the endpoint. With no other reference left the object is
\* destroyed: SNMP::~SNMP calls stop(), and _udp is released with the
\* other members.
DropReference ==
    /\ refs.user
    /\ nOps < MaxUserOps
    /\ nOps' = nOps + 1
    /\ refs' = RefsAfter([refs EXCEPT !.user = FALSE], udp)
    /\ IF refs'.alive
       THEN UNCHANGED << udp, _udp, _onMessage, _onError >>
       ELSE /\ udp' = Release(SNMP_stop(udp, _udp).u, ready, 0)
            /\ _udp' = 0
            /\ _onMessage' = 0
            /\ _onError' = 0
    /\ last' = Op("release", _udp, NoError, 0, TRUE, 0, << >>)
    /\ calls' = << >>
    /\ UNCHANGED << codec, app, role, _defaultPort, ready, nUdp, nDatagrams, nErrors, hist >>

\* The io_context runs the next completion handler: the lambda of
\* startReceive calls handleReceive on the object it captured, and drops its
\* reference to it. body is what the user's message handler does if it is
\* invoked.
RunHandler ==
    /\ ready # << >>
    /\ \E body \in HandlerBodies :
        LET c == Head(ready)
            r == handleReceive(udp, c.u, c.ec, c.n, _udp, _onMessage, _onError, body)
        IN  /\ body # "return" => Count(r.ev, "enter msg") > 0
            /\ udp' = Release(r.u, Tail(ready), _udp)
            /\ last' = [Op("handleReceive", c.u, c.ec, c.n, TRUE,
                           r.u[c.u].pending - udp[c.u].pending, r.sent)
                          EXCEPT !.ev = r.ev, !.arg = c.d]
            /\ calls' = r.calls
            /\ hist' = [hist EXCEPT
                   !.delivered = [i \in 1..MaxInit |->
                       IF ~udp'[i].alive THEN << >>
                       ELSE IF i = c.u THEN @[i] \o Deliveries(r.calls)
                       ELSE @[i]],
                   !.live = @ + Count(r.ev, "new Message")
                              - Count(r.ev, "delete Message")]
    /\ ready' = Tail(ready)
    /\ refs' = RefsAfter(refs, udp')
    /\ UNCHANGED << codec, app, role, _defaultPort, _udp, _onMessage, _onError, nUdp, nOps,
                    nDatagrams, nErrors >>

Next ==
    \/ \E bindAddress \in BindAddresses, port \in InitPorts,
          openOk \in BOOLEAN, bindOk \in BOOLEAN :
          Initialize(bindAddress, port, openOk, bindOk)
    \/ Start
    \/ Stop
    \/ OnMessage
    \/ OnError
    \/ \E x \in Sends, res \in SendResults :
          Send(x.m, x.to.ip, x.to.port, x.overload, res)
    \/ DropReference
    \/ \E i \in 1..MaxInit, d \in Datagrams : Arrive(i, d.from, d.form, d.to)
    \/ \E i \in 1..MaxInit : IoComplete(i)
    \/ \E i \in 1..MaxInit, e \in ReceiveErrors : IoError(i, e)
    \/ RunHandler

Spec == Init /\ [][Next]_vars

\* What a RunHandler step does to the io_context's queue, and the only step
\* that does it: the handler at its head is taken off and run.
Dequeue == ready # << >> /\ ready' = Tail(ready)

\* The io_context thread keeps running (io_context::run): a queued completion
\* handler is run, and the reactor completes a posted receive once a
\* datagram waits in the socket.
Fairness ==
    /\ WF_ready(Dequeue)
    /\ \A i \in 1..MaxInit : WF_vars(IoComplete(i))

FairSpec == Spec /\ Fairness

\* The endpoint in use: initialize() has succeeded on the role's default
\* port and a message handler is registered (it is none of the handlers
\* that onMessage registers later); nOps counts the calls made from here on.
InitRunning ==
    /\ role \in {"Agent", "Manager"}
    /\ refs = [alive |-> TRUE, user |-> TRUE]
    /\ _defaultPort = DefaultPort(role)
    /\ _udp = 1
    /\ _onMessage = MaxUserOps + 1
    /\ _onError = 0
    /\ udp = [i \in 1..MaxInit |->
                IF i = 1
                THEN begin(setErrorCallback(setPacketCallback([NewUDP EXCEPT !.alive = TRUE])),
                           DefaultPort(role), TRUE, TRUE, 0).s
                ELSE NewUDP]
    /\ ready = << >>
    /\ nUdp = 1
    /\ nDatagrams = 0
    /\ nErrors = 0
    /\ nOps = 0
    /\ last = Op("onMessage", 0, NoError, 0, TRUE, 0, << >>)
    /\ calls = << >>
    /\ hist = [HistInit EXCEPT !.msgHandler = MaxUserOps + 1]
    /\ codec = CodecIdle
    /\ app = AppInit

\* From there on the user starts and stops the loop, and the network and
\* the io_context do as they do.
RunningNext ==
    \/ Start
    \/ Stop
    \/ \E i \in 1..MaxInit, d \in Datagrams : Arrive(i, d.from, d.form, d.to)
    \/ \E i \in 1..MaxInit : IoComplete(i)
    \/ \E i \in 1..MaxInit, e \in ReceiveErrors : IoError(i, e)
    \/ RunHandler

RunningSpec == InitRunning /\ [][RunningNext]_vars

\* ---------------------------------------------- the BER codec on its own
\* The endpoint's variables, which the codec and the example agent's
\* handler leave alone.
endpointVars == << role, refs, _defaultPort, _udp, _onMessage, _onError, udp, ready,
                   nUdp, nOps, nDatagrams, nErrors, last, calls, hist >>

\* The length field is encoded for a payload of n bytes.
EncodeLengthOp(n) ==
    /\ codec' = [op |-> "encodeLength", arg |-> n, size |-> LengthSize(n),
                 bytes |-> EncodeLength(n), value |-> 0]
    /\ UNCHANGED << app, endpointVars >>

\* The Integer i is encoded.
EncodeIntegerOp(i) ==
    /\ codec' = [op |-> "encodeInteger", arg |-> i, size |-> IntegerSize(i),
                 bytes |-> EncodeInteger(i), value |-> 0]
    /\ UNCHANGED << app, endpointVars >>

\* The octets just encoded are decoded as an Integer.
DecodeIntegerOp ==
    /\ codec.op = "encodeInteger"
    /\ codec' = [codec EXCEPT !.op = "decodeInteger", !.value = DecodeInteger(codec.bytes)]
    /\ UNCHANGED << app, endpointVars >>

\* SNMP::send serializes m: a buffer of getSize() bytes is allocated, and
\* build() writes the message from the buffer's first byte on.
SerializeOp(m) ==
    /\ codec' = [op |-> "build", arg |-> m, size |-> getSize(m),
                 bytes |-> build(m), value |-> 0]
    /\ UNCHANGED << app, endpointVars >>

\* An Agent as constructed, its codec unused and the example agent's MIB as
\* SimpleMIB() fills it.
AgentCreated == EndpointInit /\ role = "Agent" /\ codec = CodecIdle /\ app = AppInit

CodecNext ==
    \/ \E n \in Lengths : EncodeLengthOp(n)
    \/ \E i \in Integers32 : EncodeIntegerOp(i)
    \/ DecodeIntegerOp
    \/ \E m \in CodecMessages : SerializeOp(m)

CodecSpec == AgentCreated /\ [][CodecNext]_vars

\* ------------------------------------------- the example agent's handler
\* The endpoint hands the agent's message handler a message from remote:
\* handleMessage runs on the agent's MIB.
HandleMessage(message, remote, port, uptime) ==
    LET r == handleMessage(app.mib_, message, remote, port, uptime)
    IN  /\ app.handled < MaxMessages
        /\ app' = [mib_ |-> r.mib_values, before |-> app.mib_,
                   received |-> << [message |-> message, ip |-> remote,
                                    port |-> port] >>,
                   sent |-> r.sent, handled |-> app.handled + 1]
        /\ UNCHANGED << codec, endpointVars >>

AgentNext ==
    \E x \in Requests, uptime \in Uptimes :
        HandleMessage(x.message, x.from.ip, x.from.port, uptime)

AgentSpec == AgentCreated /\ [][AgentNext]_vars

\* A walk of the system MIB, as snmpwalk does it against the example agent:
\* GetNextRequests with one varbind, the first for SYSTEM_OID and each later
\* one for the OID the agent returned, until the agent answers with an error
\* status or with EndOfMIBView (or not at all).  Meanwhile another manager
\* sends SetRequests.  app.oid is the OID the walker asks for next,
\* app.walked the OIDs it was returned, app.done whether the walk has ended.
SYSTEM_OID == << 1, 3, 6, 1, 2, 1, 1 >>
MaxSetRequests == 3
WalkVersions == {0, 1}
WalkSets ==
    { << [name |-> o, value |-> OctetStringBER("lab")] >> :
        o \in {SYSDESCR_OID, SYSNAME_OID, SYSCONTACT_OID, SYSLOCATION_OID} }

WalkInit ==
    /\ EndpointInit /\ role = "Agent" /\ codec = CodecIdle
    /\ \E version \in WalkVersions :
          app = [mib_ |-> SimpleMIB, before |-> SimpleMIB, received |-> << >>,
                 sent |-> << >>, handled |-> 0, version |-> version,
                 oid |-> SYSTEM_OID, walked |-> << >>, done |-> FALSE]

WalkStep(uptime) ==
    LET request == add(setRequestID(NewMessage(app.version, "public", TagGetNextRequest),
                                    Len(app.walked) + 1),
                       app.oid, MarkerBER(TagNull))
        r == handleMessage(app.mib_, request, PeerA.ip, PeerA.port, uptime)
        ended == \/ r.sent = << >>
                 \/ r.sent[1].m.errorStatus # 0
                 \/ r.sent[1].m.varbinds[1].value.tag = TagEndOfMIBView
    IN  /\ ~app.done
        /\ app' = [app EXCEPT
                     !.mib_ = r.mib_values, !.before = app.mib_,
                     !.received = << [message |-> request, ip |-> PeerA.ip,
                                      port |-> PeerA.port] >>,
                     !.sent = r.sent,
                     !.oid = IF ended THEN @ ELSE r.sent[1].m.varbinds[1].name,
                     !.walked = IF ended THEN @
                                ELSE Append(@, r.sent[1].m.varbinds[1].name),
                     !.done = ended]
        /\ UNCHANGED << codec, endpointVars >>

WalkSetRequest(varbinds, uptime) ==
    LET request == [NewMessage(1, "public", TagSetRequest) EXCEPT
                       !.requestID = 2, !.varbinds = varbinds]
        r == handleMessage(app.mib_, request, PeerB.ip, PeerB.port, uptime)
    IN  /\ app.handled < MaxSetRequests
        /\ app' = [app EXCEPT
                     !.mib_ = r.mib_values, !.before = app.mib_,
                     !.received = << [message |-> request, ip |-> PeerB.ip,
                                      port |-> PeerB.port] >>,
                     !.sent = r.sent, !.handled = @ + 1]
        /\ UNCHANGED << codec, endpointVars >>

WalkNext ==
    \/ \E uptime \in Uptimes : WalkStep(uptime)
    \/ \E varbinds \in WalkSets, uptime \in Uptimes : WalkSetRequest(varbinds, uptime)

WalkSpec == WalkInit /\ [][WalkNext]_vars

\* ================================================================= claims
\* The invocations of the message handler and of the error handler among
\* those the last operation made.
MsgCalls == { j \in 1..Len(calls) : calls[j].kind = "msg" }
ErrCalls == { j \in 1..Len(calls) : calls[j].kind = "err" }

\* The last operation was a receive completion that carried a datagram.
ReceivedDatagram ==
    last.op = "handleReceive" /\ last.ec = NoError /\ last.n > 0

\* C1: a receive completion with bytes_transferred > 0, both handlers being
\* registered, invokes exactly one user handler: the message handler when
\* the bytes parse, the error handler with Malformed when they do not; the
\* message handler is never invoked for bytes that do not parse.
C1_OneHandlerPerDatagram ==
    (ReceivedDatagram /\ _onMessage # 0 /\ _onError # 0) =>
        /\ Len(calls) = 1
        /\ \A j \in MsgCalls : calls[j].parsed
        /\ \A j \in ErrCalls : calls[j].code = Malformed

\* C2, the step: a receive completion that reports an error other than
\* operation_aborted, or a datagram that does not parse, on an object whose
\* loop has not been stopped and whose socket is open, posts one receive.
C2_Step ==
    ( /\ last.op = "handleReceive"
      /\ udp[last.u].alive /\ udp[last.u].receiving_ /\ udp[last.u].open
      /\ \/ last.ec # NoError
         \/ last.n > 0 /\ ~ParseOK(Prefix(udp[last.u].rx_buffer_, last.n)) )
    => last.posted = 1

\* Datagram k, a well-formed one, waits in a socket whose loop is running,
\* a message handler is registered and stop() has never been called.
C2_Waiting(k) ==
    /\ ~hist.stopCalled /\ _onMessage # 0
    /\ \E i \in 1..MaxInit :
          /\ udp[i].alive /\ udp[i].receiving_
          /\ \E j \in 1..Len(udp[i].inq) :
                /\ ParseOK(udp[i].inq[j].data)
                /\ RequestIdOf(udp[i].inq[j].data) = k

\* The message handler is being handed datagram k, parsed.
C2_Handed(k) ==
    \E j \in MsgCalls : calls[j].parsed /\ RequestIdOf(calls[j].data) = k

\* C2: the receive loop continues after a parse error or an I/O error (a new
\* receive is posted by the completion that reports it), so that, as long
\* as stop() is not called, a well-formed datagram waiting in the socket is
\* eventually handed to the message handler.
C2_LoopContinues ==
    /\ [] C2_Step
    /\ \A k \in 1..MaxDatagrams : C2_Waiting(k) ~> (C2_Handed(k) \/ hist.stopCalled)

\* C2's case: a completion with an error has been handled and has posted the
\* next receive.
C2_Witness ==
    /\ last.op = "handleReceive" /\ last.ec = "connection_refused"
    /\ last.posted = 1 /\ ~hist.stopCalled

\* C3: a datagram that reached the socket after stop(), the endpoint still
\* being stopped, is not handed to the message handler.
C3_NoDeliveryAfterStop ==
    \A k \in DeliveredIds(calls) :
        ~(k \in hist.afterStop /\ last.u = _udp /\ ~udp[_udp].receiving_)

\* C4: stop() cancels the pending receive: once it has returned and no
\* completion of this object waits to be handled, no receive is outstanding.
C4_StopCancels ==
    ( /\ _udp # 0 /\ hist.stopCalled /\ ~udp[_udp].receiving_
      /\ \A j \in 1..Len(ready) : ready[j].u # _udp )
    => udp[_udp].pending = 0

\* C5: start() while the loop is running returns true and changes nothing of
\* the endpoint: it posts no receive.
C5_StartIdempotent ==
    [][ (last'.op = "start" /\ _udp # 0 /\ udp[_udp].receiving_) =>
            /\ last'.ret /\ last'.posted = 0
            /\ UNCHANGED << udp, ready, _udp, _onMessage, _onError >> ]_vars

\* C5's case: start() was called on a running loop (it returned true and
\* posted nothing), and the one receive is still outstanding.
C5_Witness ==
    /\ last.op = "start" /\ last.ret /\ last.posted = 0
    /\ udp[_udp].receiving_ /\ udp[_udp].pending = 1

\* C6: before start() is called no receive is pending and no completion is
\* handled.
C6_NothingBeforeStart ==
    ~hist.startCalled =>
        /\ \A i \in 1..MaxInit : udp[i].pending = 0
        /\ ready = << >>
        /\ last.op # "handleReceive"

C8_AbortedNotReported ==
    /\ \A j \in ErrCalls : calls[j].code # OperationAborted
    /\ (last.op = "handleReceive" /\ last.ec # NoError /\ _onError # 0) =>
          ( (calls = << [kind |-> "err", h |-> _onError, code |-> last.ec] >>)
            <=> last.ec # OperationAborted )

\* C8's case: a completion with operation_aborted has been handled, an error
\* handler being registered.
C8_Witness ==
    /\ last.op = "handleReceive" /\ last.ec = OperationAborted
    /\ _onError # 0 /\ calls = << >>

\* C9: every invocation goes to the handler the user registered last, and
\* never to one that has been replaced.
C9_CurrentHandler ==
    /\ \A j \in MsgCalls : calls[j].h = hist.msgHandler
    /\ \A j \in ErrCalls : calls[j].h = hist.errHandler
    /\ \A j \in 1..Len(calls) : calls[j].h \notin hist.replaced

\* C9's case: a datagram is handed to a message handler that was registered,
\* in place of an earlier one, while the loop was running.
C9_Witness ==
    /\ ReceivedDatagram /\ hist.replaced # {} /\ hist.errHandler = 0
    /\ \E j \in MsgCalls : calls[j].h = hist.msgHandler

\* C10: send(message, ip, port) on an endpoint whose socket is open makes
\* one send_to, to (ip, port), of the bytes build() gives for the message,
\* and returns true exactly when send_to reported no error and sent them all.
C10_SendOnce ==
    (last.op = "send" /\ last.u # 0 /\ udp[last.u].open) =>
        /\ Len(last.sent) = 1
        /\ last.sent[1].payload = Build(last.arg[1])
        /\ last.sent[1].to = [addr |-> << last.arg[2][1] * 256 + last.arg[2][2],
                                          last.arg[2][3] * 256 + last.arg[2][4] >>,
                              port |-> last.arg[3]]
        /\ last.ret <=> ( /\ last.sent[1].ec = NoError
                          /\ last.sent[1].bytes_sent = GetSize(last.arg[1]) )

\* C10's case: a send() that returned true.
C10_Witness ==
    /\ last.op = "send" /\ last.ret /\ Len(last.sent) = 1
    /\ last.sent[1].to.port = PeerB.port

\* Whether every occurrence of event a among ev comes before every
\* occurrence of event b.
Before(ev, a, b) ==
    \A j, k \in 1..Len(ev) : (ev[j] = a /\ ev[k] = b) => j < k

\* The message handler, during the step, called send() on an endpoint whose
\* socket is open; the object that received the datagram is still there.
C11_Case ==
    /\ last'.op = "handleReceive" /\ Count(last'.ev, "~Message") > 0
    /\ _udp # 0 /\ udp[_udp].open
    /\ udp'[last'.u].alive

\* The effect of such a step on the receive side, the posting of the next
\* receive apart: one send_to, made before the handler returns; the datagram
\* bytes and the remote address and port the handler was given are still
\* those of rx_buffer_ and remote_endpoint_; the receiving flag and the
\* datagrams waiting in the socket are unchanged.
C11_Frame ==
    LET i == last'.u
    IN  /\ Len(last'.sent) = 1
        /\ Before(last'.ev, "send_to", "exit msg")
        /\ Before(last'.ev, "enter msg", "send_to")
        /\ udp'[i].rx_buffer_ = udp[i].rx_buffer_
        /\ udp'[i].remote_endpoint_ = udp[i].remote_endpoint_
        /\ udp'[i].receiving_ = udp[i].receiving_
        /\ udp'[i].inq = udp[i].inq
        /\ calls'[1].data = Prefix(udp'[i].rx_buffer_, last'.n)
        /\ calls'[1].ip = IPAddressFromUint32(udp'[i].remote_endpoint_.addr)
        /\ calls'[1].port = udp'[i].remote_endpoint_.port
        /\ Before(last'.ev, "exit msg", "post")

\* C11 as stated: a send() issued from inside the message handler leaves the
\* receive side unchanged, and exactly one new receive is posted after the
\* handler returns.
C11_SendInHandlerOriginal ==
    [][ C11_Case =>
            /\ C11_Frame
            /\ last'.posted = 1
            /\ udp'[last'.u].pending = udp[last'.u].pending + 1 ]_vars

\* C11, amended: a send() issued from inside the message handler hands its
\* bytes to the OS before it returns and leaves the receive side unchanged;
\* after the handler returns exactly one new receive is posted if the loop
\* has not been stopped, and none if it has.
C11_SendInHandler ==
    [][ C11_Case =>
            /\ C11_Frame
            /\ last'.posted = (IF udp[last'.u].receiving_ THEN 1 ELSE 0)
            /\ udp'[last'.u].pending = udp[last'.u].pending + last'.posted ]_vars

\* C11's case: the handler of a running loop answered the sender, and the
\* next receive was posted.
C11_Witness ==
    /\ last.op = "handleReceive" /\ Len(last.sent) = 1 /\ last.posted = 1
    /\ last.sent[1].payload = << TagSequence, 2, TagGetResponse, 1 >>
    /\ last.u = _udp /\ udp[_udp].receiving_

\* C12: on an endpoint on which initialize() has never been called, start(),
\* stop() and send() return false and do nothing: no socket is opened, no
\* receive is posted, nothing is transmitted and no handler is invoked.
C12_NotInitialized ==
    [][ (last'.op \in {"start", "stop", "send"} /\ nUdp = 0) =>
            /\ ~last'.ret
            /\ last'.posted = 0 /\ last'.sent = << >> /\ calls' = << >>
            /\ UNCHANGED << udp, ready, _udp, _onMessage, _onError >>
            /\ \A i \in 1..MaxInit : ~udp'[i].open /\ udp'[i].pending = 0 ]_vars

\* C12's case: each of the three operations has been called before any
\* initialize(), the last of them being send().
C12_Witness ==
    /\ nUdp = 0 /\ nOps = 3 /\ hist.startCalled
    /\ last.op = "send" /\ ~last.ret

\* C13: when opening or binding the socket fails, initialize() returns false
\* and the endpoint is left with no receive loop running: none of its
\* sockets has a receive pending or its receiving flag set, and no
\* completion waits to be handled.
C13_FailedInitialize ==
    (last.op = "initialize" /\ last.ec # NoError) =>
        /\ ~last.ret
        /\ ready = << >>
        /\ \A i \in 1..MaxInit :
              udp[i].alive => (udp[i].pending = 0 /\ ~udp[i].receiving_)

\* C14: initialize(addr, 0) binds port 161 on an Agent and 162 on a Manager,
\* and initialize(addr, p) binds p on both.
C14_DefaultPort ==
    (last.op = "initialize" /\ last.ret) =>
        /\ udp[_udp].bind = "bound"
        /\ udp[_udp].port = IF last.arg[2] # 0 THEN last.arg[2]
                            ELSE IF role = "Agent" THEN 161 ELSE 162

\* C14's case: a Manager initialized with port 0.
C14_Witness ==
    /\ last.op = "initialize" /\ last.ret /\ last.arg[2] = 0
    /\ role = "Manager" /\ udp[_udp].port = 162

\* C15: after a successful initialize(bindAddress, port) the socket's local
\* endpoint is (bindAddress, port), and no socket of the endpoint holds a
\* datagram that was sent to another local address.
C15_BindAddress ==
    /\ (last.op = "initialize" /\ last.ret) =>
          (udp[_udp].addr = last.arg[1] /\ udp[_udp].port # 0)
    /\ \A i \in 1..MaxInit : \A j \in 1..Len(udp[i].inq) :
          udp[i].inq[j].to \in BindAddresses

\* C16: the Message made for a received datagram is destroyed exactly once,
\* after the message handler has returned and before the next receive is
\* posted; between two receive callbacks none is alive.
C16_MessageLifetime ==
    /\ hist.live = 0
    /\ ReceivedDatagram =>
          /\ Count(last.ev, "new Message") = 1
          /\ Count(last.ev, "delete Message") = 1
          /\ Before(last.ev, "new Message", "enter msg")
          /\ Before(last.ev, "exit msg", "delete Message")
          /\ Before(last.ev, "new Message", "delete Message")
          /\ Before(last.ev, "delete Message", "post")

\* C16's case: a datagram was handed to the message handler and the next
\* receive was posted.
C16_Witness ==
    /\ ReceivedDatagram /\ MsgCalls # {} /\ last.posted = 1
    /\ Count(last.ev, "delete Message") = 1

\* C17: when send() returns, with either result and for either overload,
\* the Message passed to it has been destroyed.
C17_SendDestroys ==
    last.op = "send" => Count(last.ev, "~Message") = 1

\* C18: once the user has released its last reference to the endpoint, the
\* endpoint object is destroyed, no receive of the endpoint is pending and
\* no user handler is invoked.
C18_DestroyStops ==
    ~refs.user =>
        /\ ~refs.alive
        /\ \A i \in 1..MaxInit : udp[i].pending = 0
        /\ calls = << >>

\* C19: the receive buffer keeps its size, a completion never reports more
\* bytes than it holds, and the packet callback is handed between 1 and
\* BufferSize bytes: the first bytes of the datagram, all of them when it is
\* not longer than the buffer.
C19_BufferBound ==
    /\ \A i \in 1..MaxInit : Len(udp[i].rx_buffer_) = BufferSize
    /\ \A j \in 1..Len(ready) : ready[j].n <= BufferSize
    /\ \A j \in MsgCalls :
          /\ Len(calls[j].data) >= 1 /\ Len(calls[j].data) <= BufferSize
          /\ Len(calls[j].data) = last.n
          /\ \E f \in Forms :
                calls[j].data = Prefix(Payload(f, RequestIdOf(calls[j].data)), BufferSize)

\* C19's case: a datagram one byte longer than the buffer was handed on as
\* its first BufferSize bytes.
C19_Witness ==
    /\ ReceivedDatagram /\ last.n = BufferSize
    /\ \E j \in MsgCalls :
          /\ calls[j].ip = PeerB.ip
          /\ Len(calls[j].data) = BufferSize
          /\ calls[j].data =
                Prefix(Payload("oversized", RequestIdOf(calls[j].data)), BufferSize)

\* C20: user handler invocations never nest: no handler is entered while
\* another one has not returned, and the next receive is posted only after
\* the handler has returned.
C20_NoNesting ==
    /\ \A j \in 1..Len(last.ev) :
          last.ev[j] \in {"enter msg", "enter err"} =>
              Cardinality({ k \in 1..(j - 1) : last.ev[k] \in {"enter msg", "enter err"} })
                = Cardinality({ k \in 1..(j - 1) : last.ev[k] \in {"exit msg", "exit err"} })
    /\ Before(last.ev, "exit msg", "post")
    /\ Before(last.ev, "exit err", "post")

\* C21: the parse of a received datagram reads no byte at an index at or
\* beyond bytes_transferred, whatever the datagram's length fields declare.
C21_ParseConfined ==
    ReceivedDatagram => Count(last.ev, "read past end") = 0

\* C22: the size computed before a message is serialized is the number of
\* bytes build() writes: the buffer of that size is filled exactly, no byte
\* is written past its end and none is left unwritten.
C22_SizeIsBuilt ==
    codec.op = "build" => Len(codec.bytes) = codec.size

\* C22's case: a message with varbinds was serialized whose length fields
\* take the long form.
C22_Witness ==
    /\ codec.op = "build" /\ Len(codec.arg.varbinds) > 0
    /\ codec.size > 255 /\ Len(codec.bytes) = codec.size

\* C23: the length field written for a payload of n bytes is the single
\* octet n when n <= 127, and otherwise 0x80 + N followed by the N big-endian
\* octets of n, N being the smallest octet count that holds n; 127 is
\* written 7F and 128 is written 81 80.
C23_ShortestLength ==
    codec.op = "encodeLength" =>
        LET n == codec.arg
            field == codec.bytes
            N == Len(field) - 1
        IN  /\ n <= 127 => field = << n >>
            /\ n > 127 => /\ N >= 1 /\ field[1] = 128 + N
                          /\ \A k \in 2..Len(field) : field[k] \in 0..255
                          /\ Unsigned(Tail(field)) = n
                          /\ n >= Pow256(N - 1)
            /\ n = 127 => field = << 127 >>
            /\ n = 128 => field = << 129, 128 >>

\* C23's case: the length field of a payload of 128 bytes was encoded.
C23_Witness ==
    codec.op = "encodeLength" /\ codec.arg = 128 /\ codec.bytes = << 129, 128 >>

\* C24: the Integer i is encoded in the fewest two's-complement big-endian
\* octets that keep its sign: one octet for -128..127, a leading 0x00 only
\* before an octet whose top bit is set, no leading 0xFF before such an
\* octet; decoding the octets with sign extension gives i back.
C24_IntegerMinimal ==
    codec.op \in {"encodeInteger", "decodeInteger"} =>
        LET i == codec.arg
            o == codec.bytes
        IN  /\ Len(o) \in 1..4
            /\ \A k \in 1..Len(o) : o[k] \in 0..255
            /\ (i >= -128 /\ i <= 127) => Len(o) = 1
            /\ (o[1] >= 128) <=> (i < 0)
            /\ Len(o) > 1 => /\ ~(o[1] = 0 /\ o[2] < 128)
                             /\ ~(o[1] = 255 /\ o[2] >= 128)
            /\ codec.op = "decodeInteger" => codec.value = i

\* C24's case: 128, whose top bit would be taken for the sign, was encoded
\* with a leading 0x00 and decoded.
C24_Witness ==
    /\ codec.op = "decodeInteger" /\ codec.arg = 128
    /\ codec.bytes = << 0, 128 >> /\ codec.value = 128

\* The example agent has handled a message; that message, and whether it
\* is one the agent answers: community "public" and one of the three
\* request types.
Handled == app.received # << >>
Request == app.received[1].message
Answerable ==
    /\ Request.community = "public"
    /\ Request.type \in {TagGetRequest, TagGetNextRequest, TagSetRequest}

\* C25: a message with community "public" and PDU type GetRequest,
\* GetNextRequest or SetRequest is answered with exactly one GetResponse,
\* sent to the sender's IP and port and carrying the request's request id,
\* version and community; for every other PDU type nothing is sent.
C25_OneResponse ==
    Handled =>
        /\ Answerable =>
              /\ Len(app.sent) = 1
              /\ app.sent[1].m.type = TagGetResponse
              /\ app.sent[1].ip = app.received[1].ip
              /\ app.sent[1].port = app.received[1].port
              /\ app.sent[1].m.requestID = Request.requestID
              /\ app.sent[1].m.version = Request.version
              /\ app.sent[1].m.community = Request.community
        /\ (Request.community = "public" /\ ~Answerable) => app.sent = << >>

\* C25's case: a version 1 SetRequest of PeerB with community "public" was
\* answered.
C25_Witness ==
    /\ Handled /\ Answerable /\ Request.type = TagSetRequest /\ Request.version = 1
    /\ Len(app.sent) = 1 /\ app.sent[1].port = PeerB.port
    /\ app.sent[1].m.requestID = 2

\* The largest OID of the agent's MIB, in the order the agent compares OIDs.
LargestOID(mib_values) ==
    CHOOSE x \in DOMAIN mib_values : \A y \in DOMAIN mib_values : y = x \/ Less(y, x)

\* C26: a GetNextRequest whose first varbind names the largest OID of the
\* MIB is answered with a GetResponse whose varbind for that OID carries
\* EndOfMIBView, with error_status 2 (noSuchName) and error_index 1.
C26_EndOfMIBView ==
    ( /\ Handled /\ Answerable /\ Request.type = TagGetNextRequest
      /\ Len(Request.varbinds) >= 1
      /\ Request.varbinds[1].name = LargestOID(app.before) )
    => /\ Len(app.sent) = 1
       /\ app.sent[1].m.varbinds[1].name = Request.varbinds[1].name
       /\ app.sent[1].m.varbinds[1].value.tag = TagEndOfMIBView
       /\ app.sent[1].m.errorStatus = ErrorNoSuchName
       /\ app.sent[1].m.errorIndex = 1

\* An OID that can be read and cannot be written.
ReadOnly(oid) ==
    /\ \A t \in Uptimes : getValue(app.before, oid, t).kind # "nullptr"
    /\ ~setValue(app.before, oid, "").ret

\* C27: a SetRequest whose single varbind names a read-only OID, or carries
\* a value that is not an OctetString, is answered with a GetResponse with
\* error_status 3 (badValue) and error_index 1, and no MIB value changes.
C27_SetRejected ==
    ( /\ Handled /\ Answerable /\ Request.type = TagSetRequest
      /\ Len(Request.varbinds) = 1
      /\ \/ ReadOnly(Request.varbinds[1].name)
         \/ Request.varbinds[1].value.tag # TagOctetString )
    => /\ Len(app.sent) = 1
       /\ app.sent[1].m.type = TagGetResponse
       /\ app.sent[1].m.errorStatus = ErrorBadValue
       /\ app.sent[1].m.errorIndex = 1
       /\ app.mib_ = app.before

\* C27's case: a SetRequest with an OctetString for sysDescr was refused.
C27_Witness ==
    /\ Handled /\ Answerable /\ Request.type = TagSetRequest
    /\ Len(Request.varbinds) = 1 /\ Request.varbinds[1].name = SYSDESCR_OID
    /\ Request.varbinds[1].value.tag = TagOctetString
    /\ Len(app.sent) = 1 /\ app.sent[1].m.errorStatus = ErrorBadValue

\* C28: a message whose community is not "public" is ignored: nothing is
\* sent and no MIB value changes, whatever its PDU type and varbinds.
C28_OtherCommunityIgnored ==
    (Handled /\ Request.community # "public") =>
        /\ app.sent = << >>
        /\ app.mib_ = app.before

\* C28's case: a SetRequest with community "private" that names sysName and
\* carries an OctetString was handled.
C28_Witness ==
    /\ Handled /\ Request.community = "private" /\ Request.type = TagSetRequest
    /\ Len(Request.varbinds) >= 1 /\ Request.varbinds[1].name = SYSNAME_OID
    /\ Request.varbinds[1].value.tag = TagOctetString
    /\ app.sent = << >>

\* The asynchronous receives the endpoint has outstanding, over the AsioUDP
\* objects 1..n it has created.
RECURSIVE Outstanding(_)
Outstanding(n) == IF n = 0 THEN 0 ELSE udp[n].pending + Outstanding(n - 1)

\* C30: the endpoint has at most one asynchronous receive outstanding, on
\* every AsioUDP object and over all of them.
C30_OneReceive ==
    Outstanding(MaxInit) <= 1

\* C29: a datagram that reached the socket between stop() and a later
\* start() is not handed to the message handler after that start().
C29_StoppedDatagramsDropped ==
    \A k \in DeliveredIds(calls) : ~(k \in hist.missed /\ last.u = _udp)

\* C31: the bytes, the length and the remote address and port handed to
\* the message handler for a receive completion are those of the datagram
\* that this completion stored: no other receive has overwritten rx_buffer_
\* or remote_endpoint_ in between.
C31_OwnDatagram ==
    (ReceivedDatagram /\ MsgCalls # {}) =>
        /\ calls[1].data = Prefix(last.arg[1].data, last.n)
        /\ calls[1].ip = last.arg[1].from.ip
        /\ calls[1].port = last.arg[1].from.port

\* C32: start() returns true only when the socket of the most recent
\* initialize() is open and bound; otherwise, as after an initialize() whose
\* bind failed, it returns false and posts no receive.
C32_StartNeedsBoundSocket ==
    last.op = "start" =>
        IF _udp # 0 /\ udp[_udp].open /\ udp[_udp].bind # "unbound"
        THEN TRUE
        ELSE ~last.ret /\ last.posted = 0

\* C33: a receive that completes without error and with zero bytes invokes
\* neither the message handler nor the error handler, and posts the next
\* receive when the loop is still running, and none when it is not.
C33_EmptyCompletion ==
    (last.op = "handleReceive" /\ last.ec = NoError /\ last.n = 0) =>
        /\ calls = << >>
        /\ udp[last.u].alive =>
              last.posted = IF udp[last.u].receiving_ THEN 1 ELSE 0

\* C33's case: a receive completed with zero bytes while both a message
\* handler was registered and the loop was running; a receive was posted.
C33_Witness ==
    /\ last.op = "handleReceive" /\ last.ec = NoError /\ last.n = 0
    /\ _onMessage # 0 /\ udp[last.u].alive /\ udp[last.u].receiving_
    /\ last.posted = 1 /\ calls = << >>

\* C34: the remote address round-trips.  For a datagram sent from a.b.c.d
\* and port p, the (remote_ip, remote_port) handed to the message handler is
\* (a.b.c.d, p), and a send() to that pair from the handler addresses the
\* outgoing datagram to a.b.c.d:p.
C34_RemoteRoundTrip ==
    (ReceivedDatagram /\ MsgCalls # {}) =>
        LET from == last.arg[1].from
            remote == [addr |-> << from.ip[1] * 256 + from.ip[2],
                                  from.ip[3] * 256 + from.ip[4] >>,
                       port |-> from.port]
        IN  /\ calls[1].ip = from.ip
            /\ calls[1].port = from.port
            /\ IPAddressFromUint32(IPAddressToUint32(calls[1].ip)) = calls[1].ip
            /\ \A k \in 1..Len(last.sent) : last.sent[k].to = remote

\* The 1-based positions of the varbinds of the response the agent sent that
\* failed: those it answered with NoSuchObject or EndOfMIBView.
FailedVarBinds ==
    { k \in 1..Len(app.sent[1].m.varbinds) :
        app.sent[1].m.varbinds[k].value.tag \in {TagNoSuchObject, TagEndOfMIBView} }

\* C35: in every GetResponse of the example agent error_status is non-zero
\* exactly when at least one varbind failed, and error_index is then the
\* 1-based position of the first varbind that failed, and 0 when none did.
C35_FirstFailingVarBind ==
    (Handled /\ Answerable /\ Len(app.sent) = 1) =>
        /\ (app.sent[1].m.errorStatus # 0) <=> (FailedVarBinds # {})
        /\ app.sent[1].m.errorIndex =
              IF FailedVarBinds = {} THEN 0
              ELSE CHOOSE k \in FailedVarBinds : \A j \in FailedVarBinds : k <= j

\* C36: a SetRequest is applied all or nothing: when the GetResponse to it
\* carries a non-zero error_status, no MIB value differs from its value
\* before the request.
C36_SetAllOrNothing ==
    ( /\ Handled /\ Answerable /\ Request.type = TagSetRequest
      /\ Len(app.sent) = 1 /\ app.sent[1].m.errorStatus # 0 )
    => app.mib_ = app.before

\* C38: whatever requests the agent has handled, the MIB holds the OIDs it
\* held at construction, only sysName, sysContact and sysLocation can differ
\* from their initial values (sysDescr never does), and a request that is
\* not a SetRequest leaves every MIB value as it was.
C38_OnlyWritableChange ==
    /\ DOMAIN app.mib_ = DOMAIN SimpleMIB
    /\ \A oid \in DOMAIN SimpleMIB \ {SYSNAME_OID, SYSCONTACT_OID, SYSLOCATION_OID} :
          app.mib_[oid] = SimpleMIB[oid]
    /\ app.mib_[SYSDESCR_OID] = SimpleMIB[SYSDESCR_OID]
    /\ (Handled /\ Request.type # TagSetRequest) => app.mib_ = app.before

\* C38's case: the second request handled was a SetRequest with an
\* OctetString for sysDescr and one for sysName; sysName changed.
C38_Witness ==
    /\ Handled /\ Answerable /\ app.handled = MaxMessages
    /\ Request.type = TagSetRequest /\ Len(Request.varbinds) = 2
    /\ Request.varbinds[1] = [name |-> SYSDESCR_OID, value |-> OctetStringBER("lab")]
    /\ Request.varbinds[2] = [name |-> SYSNAME_OID, value |-> OctetStringBER("lab")]
    /\ app.mib_[SYSNAME_OID] = "lab"
    /\ app.mib_[SYSDESCR_OID] = SimpleMIB[SYSDESCR_OID]

\* The OIDs a GetRequest can read, among those of the system group the
\* agent knows.
Readable ==
    { oid \in {SYSDESCR_OID, SYSUPTIME_OID, SYSCONTACT_OID, SYSNAME_OID, SYSLOCATION_OID} :
        \A t \in Uptimes : getValue(app.mib_, oid, t).kind # "nullptr" }

\* C37: a walk by GetNextRequests from 1.3.6.1.2.1.1, each asking for the OID
\* returned, has returned, when it ends, every OID a GetRequest can read
\* (sysDescr, sysUpTime, sysContact, sysName, sysLocation), each exactly once
\* and in increasing order.
C37_WalkReturnsAll ==
    app.done =>
        /\ { app.walked[k] : k \in 1..Len(app.walked) } = Readable
        /\ \A j, k \in 1..Len(app.walked) : j < k => Less(app.walked[j], app.walked[k])

====
